---------------------------- MODULE Spec2Model ----------------------------
(***************************************************************************)
(* A model of mc-cli's screenshot analysis (src/cli/mccli/analysis.py).    *)
(*                                                                         *)
(* Spec        read_png_pixels, one step per phase of the function: the    *)
(*             signature, one chunk per step, the dimension check, the     *)
(*             decompression, one scanline per step, the return.           *)
(* SpecAnalyze analyze and compare as whole calls on image files.          *)
(*                                                                         *)
(* Bytes are integers 0..255.  A file is its 8 signature bytes and the     *)
(* chunks that the framing reads of lines 132-139 yield, in file order.    *)
(* The floats of analyze are modelled by exact rational arithmetic on      *)
(* integers (a luminance is kept times 1000, a ratio as numerator and      *)
(* denominator).  The histogram correlation of compare is computed in IEEE *)
(* 754 doubles, rounding included.                                         *)
(***************************************************************************)
EXTENDS Integers, Sequences, FiniteSets, TLC

VARIABLES
    file,        \* the bytes behind `path`: [sig, chunks]
    pc,          \* where read_png_pixels stands
    exc,         \* the exception that left the function, "" if none
    cpos,        \* file position, as the index of the next chunk
    width, height, bit_depth, color_type,
    idat_data,   \* the IDAT payloads read so far
    raw,         \* the decompressed stream
    pos,         \* offset into raw (0-based, as in the code)
    prev_row,    \* the previous reconstructed row
    rows,        \* iterations of the scanline loop completed
    pixels,      \* the (r, g, b) triples appended so far
    calls,       \* which phases have run (history)
    path_a, path_b,  \* the two files of an analyze / compare call
    apc,         \* where the analysis stands
    metrics,     \* the ImageMetrics of analyze(path_a), or an error
    comparison,  \* the ComparisonResult of compare(path_a, path_b), or an error
    reverse,     \* the ComparisonResult of compare(path_b, path_a), or an error
    issues,      \* the tags of metrics.diagnose()
    directory,   \* the files of a directory, by name
    listing,     \* the sorted paths analyze_directory has still to visit
    results,     \* the list analyze_directory builds
    warnings,    \* the paths analyze_directory printed a warning for
    dpc,         \* where analyze_directory stands
    registry,    \* the live instances, in the order of the registry file
    host, port, instance,  \* the arguments of a resolve_connection call
    connection,  \* what resolve_connection returned or raised
    lookups,     \* how many times the call listed the registry
    sock,        \* Client._socket: 0 for None, else the number of the connection
    request_id,  \* Client._request_id
    buffer,      \* Client._buffer: what was received and not yet returned
    wire,        \* what the server wrote on the connection, not yet received
    inbox,       \* the requests the server received and has not answered
    peer_open,   \* the server has not closed the connection
    cpc,         \* where Client._send stands
    cur,         \* the request of the _send call in progress, or of the last
    outcome,     \* how the last call on the client ended
    sent,        \* the requests handed to sendall, in order (history)
    conns,       \* the connections made so far
    macro,       \* the macro run_macro loaded: steps and stop_on_error
    mpc,         \* where run_macro stands
    midx,        \* the steps the loop has passed
    mresults,    \* the list `results` of run_macro
    overall_success,
    connected,   \* the client of run_macro holds a socket
    executed     \* what each entry of results actually did (history)

decodeVars == <<file, pc, exc, cpos, width, height, bit_depth, color_type,
                idat_data, raw, pos, prev_row, rows, pixels, calls>>
analyzeVars == <<path_a, path_b, apc, metrics, comparison, reverse, issues>>
batchVars == <<directory, listing, results, warnings, dpc>>
registryVars == <<registry, host, port, instance, connection, lookups>>
clientVars == <<sock, request_id, buffer, wire, inbox, peer_open, cpc, cur,
                outcome, sent, conns>>
macroVars == <<macro, mpc, midx, mresults, overall_success, connected, executed>>
vars == <<decodeVars, analyzeVars, batchVars, registryVars, clientVars, macroVars>>

----------------------------------------------------------------------------
(* Bounds of the model. *)

\* longest decompressed stream among the enumerated data files
MaxRaw == 4
\* longest chunk sequence among the enumerated structure files
MaxChunks == 4

----------------------------------------------------------------------------
(* Sequences and bytes. *)

Min(a, b) == IF a <= b THEN a ELSE b
Max(a, b) == IF a >= b THEN a ELSE b
Abs(a) == IF a < 0 THEN -a ELSE a

\* F applied to the value of e, and G to the values of d and e: a local
\* variable of the code, assigned once and read many times
Let(F(_), e) == CHOOSE r \in {F(v) : v \in {e}} : TRUE
Let2(G(_, _), d, e) == CHOOSE r \in {G(u, v) : u \in {d}, v \in {e}} : TRUE

RECURSIVE SumSeq(_)
SumSeq(s) == IF s = <<>> THEN 0 ELSE Head(s) + SumSeq(Tail(s))

RECURSIVE Flatten(_)
Flatten(ss) == IF ss = <<>> THEN <<>> ELSE Head(ss) \o Flatten(Tail(ss))

Zeros(n) == [i \in 1..n |-> 0]

\* all sequences over S of length at most n
SeqsUpTo(S, n) == UNION {[1..k -> S] : k \in 0..n}

\* Python's s[a:b] for 0 <= a <= b: clamped to the length of s
Slice(s, a, b) == SubSeq(s, Min(a, Len(s)) + 1, Min(b, Len(s)))

\* struct.unpack(">I", b)[0] for a 4-byte b
U32BE(b) == ((b[1] * 256 + b[2]) * 256 + b[3]) * 256 + b[4]

\* struct.pack(">I", n), for the files the model enumerates
PackU32BE(n) == <<(n \div 16777216) % 256, (n \div 65536) % 256,
                  (n \div 256) % 256, n % 256>>

\* the result of a call that has not run, and of one that raised e
NotRun == [ok |-> FALSE, exc |-> "not run"]
\* diagnose has not run
NoIssues == [run |-> FALSE, tags |-> <<>>]
Failed(e) == [ok |-> FALSE, exc |-> e]

----------------------------------------------------------------------------
(* zlib, the external codec: a stream is a header byte, the payload and a   *)
(* checksum of the payload; decompress fails on anything else.             *)

ZlibHeader == 120
AdlerBase == 251

Adler(payload) == (1 + SumSeq(payload)) % AdlerBase

zlib_compress(payload) == <<ZlibHeader>> \o payload \o <<Adler(payload)>>

zlib_decompress(z) ==
    IF Len(z) < 2 \/ z[1] # ZlibHeader
       \/ z[Len(z)] # Adler(SubSeq(z, 2, Len(z) - 1))
    THEN [err |-> TRUE, data |-> <<>>]
    ELSE [err |-> FALSE, data |-> SubSeq(z, 2, Len(z) - 1)]

----------------------------------------------------------------------------
(* read_png_pixels: the signature and the chunk loop. *)

PNG_SIGNATURE == <<137, 80, 78, 71, 13, 10, 26, 10>>

\* the mutant: only the magic "\x89PNG" is compared
SignatureOK_MagicOnly(sig) == Slice(sig, 0, 4) = Slice(PNG_SIGNATURE, 0, 4)

SignatureOK(sig) == sig = PNG_SIGNATURE

\* The header fields the chunk loop carries.
Header0 == [width |-> 0, height |-> 0, bit_depth |-> 0, color_type |-> 0,
            idat_data |-> <<>>]

\* the mutant: IEND is skipped like any other chunk, the loop runs to the
\* end of the file
ChunkStep_NoBreak(h, c) ==
    IF c.type = "IHDR" THEN
        IF Len(c.data) < 8 THEN [h |-> h, end |-> "struct.error"]
        ELSE IF Len(c.data) < 10 THEN [h |-> h, end |-> "IndexError"]
        ELSE [h |-> [h EXCEPT !.width = U32BE(Slice(c.data, 0, 4)),
                              !.height = U32BE(Slice(c.data, 4, 8)),
                              !.bit_depth = c.data[9],
                              !.color_type = c.data[10]],
              end |-> "next"]
    ELSE IF c.type = "IDAT" THEN
        [h |-> [h EXCEPT !.idat_data = h.idat_data \o c.data], end |-> "next"]
    ELSE [h |-> h, end |-> "next"]

\* One pass of the loop body on chunk c: what it does to the header fields h,
\* and how the pass ends: "next", "break" (IEND) or the exception raised.
ChunkStep(h, c) ==
    IF c.type = "IHDR" THEN
        IF Len(c.data) < 8 THEN [h |-> h, end |-> "struct.error"]
        ELSE IF Len(c.data) < 10 THEN [h |-> h, end |-> "IndexError"]
        ELSE [h |-> [h EXCEPT !.width = U32BE(Slice(c.data, 0, 4)),
                              !.height = U32BE(Slice(c.data, 4, 8)),
                              !.bit_depth = c.data[9],
                              !.color_type = c.data[10]],
              end |-> "next"]
    ELSE IF c.type = "IDAT" THEN
        [h |-> [h EXCEPT !.idat_data = h.idat_data \o c.data], end |-> "next"]
    ELSE IF c.type = "IEND" THEN [h |-> h, end |-> "break"]
    ELSE [h |-> h, end |-> "next"]

\* the mutant: only the width is tested
DimensionsMissing_WidthOnly(w, h) == w = 0

DimensionsMissing(w, h) == w = 0 \/ h = 0

----------------------------------------------------------------------------
(* read_png_pixels: the scanlines. *)

\* the mutant: every colour type but 6 is taken as truecolor
Bpp_DefaultRGB(ct) == IF ct = 6 THEN 4 ELSE 3

Bpp(ct) == IF ct = 2 THEN 3 ELSE IF ct = 6 THEN 4 ELSE 1

\* the mutant: ties go to the upper-left byte first, then up, then left
PaethPredictor_UpperLeftFirst(left, up, up_left) ==
    LET p == left + up - up_left
        pa == Abs(p - left)
        pb == Abs(p - up)
        pcc == Abs(p - up_left)
    IN IF pcc <= pa /\ pcc <= pb THEN up_left ELSE IF pb <= pa THEN up ELSE left

PaethPredictor(left, up, up_left) ==
    LET p == left + up - up_left
        pa == Abs(p - left)
        pb == Abs(p - up)
        pcc == Abs(p - up_left)
    IN IF pa <= pb /\ pa <= pcc THEN left ELSE IF pb <= pcc THEN up ELSE up_left

\* The filter loops over i in first..n-1 (0-based) on the bytearray `row`:
\* an index past the end of row or prev raises IndexError.
RECURSIVE Defilter(_, _, _, _, _, _)
Defilter(ft, row, prev, bpp, i, n) ==
    IF i >= n THEN [err |-> FALSE, row |-> row]
    ELSE IF i >= Len(row) THEN [err |-> TRUE, row |-> row]
    ELSE LET left == IF i >= bpp THEN row[i - bpp + 1] ELSE 0 IN
         IF ft = 1 THEN
             Let(LAMBDA out : Defilter(ft, out, prev, bpp, i + 1, n),
                 [row EXCEPT ![i + 1] = (@ + left) % 256])
         ELSE IF i >= Len(prev) THEN [err |-> TRUE, row |-> row]
         ELSE LET up == prev[i + 1]
                  up_left == IF i >= bpp THEN prev[i - bpp + 1] ELSE 0
                  add == IF ft = 2 THEN up
                         ELSE IF ft = 3 THEN (left + up) \div 2
                         ELSE PaethPredictor(left, up, up_left)
              IN Let(LAMBDA out : Defilter(ft, out, prev, bpp, i + 1, n),
                     [row EXCEPT ![i + 1] = (@ + add) % 256])

\* Average with the sum of left and up taken modulo 256 before it is halved
RECURSIVE AverageWraps(_, _, _, _, _)
AverageWraps(row, prev, bpp, i, n) ==
    IF i >= n THEN [err |-> FALSE, row |-> row]
    ELSE IF i >= Len(row) \/ i >= Len(prev) THEN [err |-> TRUE, row |-> row]
    ELSE LET left == IF i >= bpp THEN row[i - bpp + 1] ELSE 0 IN
         Let(LAMBDA out : AverageWraps(out, prev, bpp, i + 1, n),
             [row EXCEPT ![i + 1] = (@ + ((left + prev[i + 1]) % 256) \div 2) % 256])

\* the mutant: filter 3 halves a wrapped sum
ApplyFilter_AverageWraps(ft, row, prev, bpp, row_bytes) ==
    IF ft = 1 THEN Defilter(1, row, prev, bpp, bpp, row_bytes)
    ELSE IF ft = 3 THEN AverageWraps(row, prev, bpp, 0, row_bytes)
    ELSE IF ft \in {2, 4} THEN Defilter(ft, row, prev, bpp, 0, row_bytes)
    ELSE [err |-> FALSE, row |-> row]

\* the mutant: filter 1 adds the filtered byte to the left, not the
\* reconstructed one
ApplyFilter_SubOfFiltered(ft, row, prev, bpp, row_bytes) ==
    IF ft = 1 THEN
        IF row_bytes > Len(row) THEN [err |-> TRUE, row |-> row]
        ELSE [err |-> FALSE,
              row |-> [j \in 1..Len(row) |->
                          IF j > bpp THEN (row[j] + row[j - bpp]) % 256 ELSE row[j]]]
    ELSE IF ft \in {2, 3, 4} THEN Defilter(ft, row, prev, bpp, 0, row_bytes)
    ELSE [err |-> FALSE, row |-> row]

\* the if/elif chain on filter_type: any other value leaves the row as read
ApplyFilter(ft, row, prev, bpp, row_bytes) ==
    IF ft = 1 THEN Defilter(1, row, prev, bpp, bpp, row_bytes)
    ELSE IF ft \in {2, 3, 4} THEN Defilter(ft, row, prev, bpp, 0, row_bytes)
    ELSE [err |-> FALSE, row |-> row]

\* the mutant: pixels are taken every three bytes, whatever bpp is
RECURSIVE RowPixels_Packed(_, _, _, _, _)
RowPixels_Packed(row, bpp, x, w, px) ==
    IF x >= w THEN [err |-> FALSE, px |-> px]
    ELSE IF x * 3 + 2 >= Len(row) THEN [err |-> TRUE, px |-> <<>>]
    ELSE RowPixels_Packed(row, bpp, x + 1, w,
                          Append(px, <<row[x * 3 + 1], row[x * 3 + 2], row[x * 3 + 3]>>))

\* the pixel loop over x in x..w-1, appending to px: row[offset + 2] past the
\* end raises
RECURSIVE RowPixels(_, _, _, _, _)
RowPixels(row, bpp, x, w, px) ==
    IF x >= w THEN [err |-> FALSE, px |-> px]
    ELSE IF x * bpp + 2 >= Len(row) THEN [err |-> TRUE, px |-> <<>>]
    ELSE RowPixels(row, bpp, x + 1, w,
                   Append(px, <<row[x * bpp + 1], row[x * bpp + 2], row[x * bpp + 3]>>))

\* the mutant: the row as read, not as reconstructed, becomes the previous row
ScanlineStep_PrevIsFiltered(data, p, prev, w, bpp) ==
    LET row_bytes == w * bpp
        bad == [err |-> TRUE, pos |-> p, row |-> prev, px |-> <<>>]
    IN IF p >= Len(data) THEN bad
       ELSE Let(LAMBDA fl :
                    IF fl.err THEN bad
                    ELSE Let(LAMBDA px :
                                 IF px.err THEN bad
                                 ELSE [err |-> FALSE, pos |-> p + 1 + row_bytes,
                                       row |-> Slice(data, p + 1, p + 1 + row_bytes),
                                       px |-> px.px],
                             RowPixels(fl.row, bpp, 0, w, <<>>)),
                ApplyFilter(data[p + 1], Slice(data, p + 1, p + 1 + row_bytes),
                            prev, bpp, row_bytes))

\* One pass of the scanline loop at offset p with previous row prev.
ScanlineStep(data, p, prev, w, bpp) ==
    LET row_bytes == w * bpp
        bad == [err |-> TRUE, pos |-> p, row |-> prev, px |-> <<>>]
    IN IF p >= Len(data) THEN bad
       ELSE Let(LAMBDA fl :
                    IF fl.err THEN bad
                    ELSE Let(LAMBDA px :
                                 IF px.err THEN bad
                                 ELSE [err |-> FALSE, pos |-> p + 1 + row_bytes,
                                       row |-> fl.row, px |-> px.px],
                             RowPixels(fl.row, bpp, 0, w, <<>>)),
                ApplyFilter(data[p + 1], Slice(data, p + 1, p + 1 + row_bytes),
                            prev, bpp, row_bytes))

----------------------------------------------------------------------------
(* The files the decoder is run on. *)

Chunk(t, d) == [type |-> t, data |-> d]

\* no file at all: the value of a path variable that is not in use
NoFile == [readable |-> FALSE, sig |-> <<>>, chunks |-> <<>>]

\* the 13 bytes of an IHDR: width, height, bit depth, colour type,
\* compression, filter, interlace
IHDRData(w, h, depth, ct, il) ==
    PackU32BE(w) \o PackU32BE(h) \o <<depth, ct, 0, 0, il>>

PngFile(ihdr, data) ==
    [readable |-> TRUE, sig |-> PNG_SIGNATURE,
     chunks |-> <<Chunk("IHDR", ihdr), Chunk("IDAT", zlib_compress(data)),
                  Chunk("IEND", <<>>)>>]

\* byte values of the enumerated streams: the five filter types, and 255
\* (no filter type, and a value that wraps when added to)
RawBytes == {0, 1, 2, 3, 4, 255}

DataHeaders ==
    {IHDRData(1, 1, 8, 2, 0), IHDRData(1, 1, 8, 6, 0), IHDRData(1, 1, 8, 0, 0),
     IHDRData(1, 1, 8, 3, 0), IHDRData(1, 1, 16, 2, 0), IHDRData(1, 1, 8, 2, 1),
     IHDRData(1, 2, 8, 2, 0), IHDRData(3, 1, 8, 0, 0), IHDRData(1, 2, 8, 4, 0)}

\* well-framed files: every header above with every stream up to MaxRaw bytes
DataFiles == {PngFile(h, d) : h \in DataHeaders, d \in SeqsUpTo(RawBytes, MaxRaw)}

\* the compressed form of one 1x1 truecolor image, cut in two IDAT payloads
SplitStream == zlib_compress(<<0, 10, 20, 30>>)

StructChunks ==
    {Chunk("IHDR", IHDRData(1, 1, 8, 2, 0)), Chunk("IHDR", IHDRData(1, 0, 8, 2, 0)),
     Chunk("IDAT", Slice(SplitStream, 0, 3)),
     Chunk("IDAT", Slice(SplitStream, 3, Len(SplitStream))),
     Chunk("IEND", <<>>), Chunk("tEXt", <<7, 7>>)}

\* files of every chunk order up to MaxChunks chunks, ended by the end of file
StructFiles ==
    {[readable |-> TRUE, sig |-> PNG_SIGNATURE, chunks |-> cs] : cs \in SeqsUpTo(StructChunks, MaxChunks)}

\* IHDR chunks cut short, and a zero width
OddHeaderFiles ==
    {PngFile(h, <<0, 10, 20, 30>>) :
        h \in {Slice(IHDRData(1, 1, 8, 2, 0), 0, 6), Slice(IHDRData(1, 1, 8, 2, 0), 0, 8),
               Slice(IHDRData(1, 1, 8, 2, 0), 0, 9), IHDRData(0, 1, 8, 2, 0),
               IHDRData(0, 0, 8, 2, 0)}}

BadSignatures ==
    {<<137, 80, 88, 71, 13, 10, 26, 10>>, <<137, 80, 78, 71, 13, 10, 26, 13>>,
     <<137, 80, 78, 71>>, <<>>}

BadSignatureFiles ==
    {[PngFile(IHDRData(1, 1, 8, 2, 0), <<0, 10, 20, 30>>) EXCEPT !.sig = s] :
        s \in BadSignatures}

\* a path open() fails on: no such file, a directory, no permission
Unreadable(f) == [f EXCEPT !.readable = FALSE]

UnreadableFiles == {Unreadable(PngFile(IHDRData(1, 1, 8, 2, 0), <<0, 10, 20, 30>>))}

Files ==
    DataFiles \cup StructFiles \cup OddHeaderFiles \cup BadSignatureFiles
        \cup UnreadableFiles

----------------------------------------------------------------------------
(* read_png_pixels, step by step. *)

Raise(e) == pc' = "raised" /\ exc' = e

\* open(path, "rb"), f.read(8) and the comparison with the signature
ReadSignature ==
    /\ pc = "signature"
    /\ IF ~file.readable
       THEN Raise("OSError") /\ calls' = calls
       ELSE /\ calls' = calls \cup {"signature"}
            /\ IF SignatureOK(file.sig)
               THEN pc' = "chunks" /\ exc' = exc
               ELSE Raise("ValueError")
    /\ UNCHANGED <<file, cpos, width, height, bit_depth, color_type, idat_data,
                   raw, pos, prev_row, rows, pixels>>

\* one pass of `while True`: the end of the file, or one chunk
ReadChunk ==
    /\ pc = "chunks"
    /\ IF cpos > Len(file.chunks)
       THEN /\ pc' = "dimensions"
            /\ UNCHANGED <<exc, cpos, width, height, bit_depth, color_type,
                           idat_data, calls>>
       ELSE LET s == ChunkStep([width |-> width, height |-> height,
                                bit_depth |-> bit_depth, color_type |-> color_type,
                                idat_data |-> idat_data], file.chunks[cpos])
            IN /\ cpos' = cpos + 1
               /\ calls' = calls \cup {"chunk"}
               /\ width' = s.h.width
               /\ height' = s.h.height
               /\ bit_depth' = s.h.bit_depth
               /\ color_type' = s.h.color_type
               /\ idat_data' = s.h.idat_data
               /\ IF s.end = "next" THEN pc' = "chunks" /\ exc' = exc
                  ELSE IF s.end = "break" THEN pc' = "dimensions" /\ exc' = exc
                  ELSE Raise(s.end)
    /\ UNCHANGED <<file, raw, pos, prev_row, rows, pixels>>

\* `if width == 0 or height == 0: raise`
CheckDimensions ==
    /\ pc = "dimensions"
    /\ calls' = calls \cup {"dimensions"}
    /\ IF DimensionsMissing(width, height)
       THEN Raise("ValueError")
       ELSE pc' = "decompress" /\ exc' = exc
    /\ UNCHANGED <<file, cpos, width, height, bit_depth, color_type, idat_data,
                   raw, pos, prev_row, rows, pixels>>

\* zlib.decompress and the set-up of the scanline loop
Decompress ==
    /\ pc = "decompress"
    /\ calls' = calls \cup {"decompress"}
    /\ LET z == zlib_decompress(idat_data) IN
       IF z.err
       THEN Raise("zlib.error") /\ UNCHANGED <<raw, prev_row>>
       ELSE /\ pc' = "scanlines" /\ exc' = exc
            /\ raw' = z.data
            /\ prev_row' = Zeros(width * Bpp(color_type))
    /\ UNCHANGED <<file, cpos, width, height, bit_depth, color_type, idat_data,
                   pos, rows, pixels>>

\* one pass of `for _ in range(height)`
ReadScanline ==
    /\ pc = "scanlines"
    /\ rows < height
    /\ calls' = calls \cup {"scanline"}
    /\ LET s == ScanlineStep(raw, pos, prev_row, width, Bpp(color_type)) IN
       IF s.err
       THEN Raise("IndexError") /\ UNCHANGED <<pos, prev_row, rows, pixels>>
       ELSE /\ pc' = "scanlines" /\ exc' = exc
            /\ pos' = s.pos
            /\ prev_row' = s.row
            /\ rows' = rows + 1
            /\ pixels' = pixels \o s.px
    /\ UNCHANGED <<file, cpos, width, height, bit_depth, color_type, idat_data, raw>>

\* `return pixels, width, height`
Return ==
    /\ pc = "scanlines"
    /\ rows = height
    /\ pc' = "returned"
    /\ UNCHANGED <<file, exc, cpos, width, height, bit_depth, color_type,
                   idat_data, raw, pos, prev_row, rows, pixels, calls>>

AnalyzeIdle ==
    /\ path_a = NoFile
    /\ path_b = NoFile
    /\ apc = "idle" /\ metrics = NotRun /\ comparison = NotRun
    /\ reverse = NotRun /\ issues = NoIssues

BatchIdle ==
    /\ directory = <<>> /\ listing = <<>> /\ results = <<>> /\ warnings = <<>>
    /\ dpc = "idle"

\* no resolve_connection call: None for each argument, an empty registry
RegistryIdle ==
    /\ registry = <<>>
    /\ host = <<>> /\ port = <<>> /\ instance = <<>>
    /\ connection = NotRun /\ lookups = 0

\* a Client as __init__ leaves it
NoOutcome == [kind |-> "none"]
NoRequest == [id |-> <<>>, conn |-> 0]

ClientIdle ==
    /\ sock = 0 /\ request_id = 0 /\ buffer = <<>>
    /\ wire = <<>> /\ inbox = <<>> /\ peer_open = FALSE
    /\ cpc = "idle" /\ cur = NoRequest /\ outcome = NoOutcome
    /\ sent = <<>> /\ conns = 0

\* no run_macro call
NoMacro == [steps |-> <<>>, stop_on_error |-> TRUE]

MacroIdle ==
    /\ macro = NoMacro /\ mpc = "idle" /\ midx = 0 /\ mresults = <<>>
    /\ overall_success = TRUE /\ connected = FALSE /\ executed = <<>>

Init ==
    /\ file \in Files
    /\ pc = "signature" /\ exc = "" /\ cpos = 1
    /\ width = 0 /\ height = 0 /\ bit_depth = 0 /\ color_type = 0
    /\ idat_data = <<>> /\ raw = <<>> /\ pos = 0 /\ prev_row = <<>>
    /\ rows = 0 /\ pixels = <<>> /\ calls = {}
    /\ AnalyzeIdle /\ BatchIdle /\ RegistryIdle /\ ClientIdle /\ MacroIdle

Next ==
    \/ ReadSignature /\ UNCHANGED <<analyzeVars, batchVars, registryVars, clientVars, macroVars>>
    \/ ReadChunk /\ UNCHANGED <<analyzeVars, batchVars, registryVars, clientVars, macroVars>>
    \/ CheckDimensions /\ UNCHANGED <<analyzeVars, batchVars, registryVars, clientVars, macroVars>>
    \/ Decompress /\ UNCHANGED <<analyzeVars, batchVars, registryVars, clientVars, macroVars>>
    \/ ReadScanline /\ UNCHANGED <<analyzeVars, batchVars, registryVars, clientVars, macroVars>>
    \/ Return /\ UNCHANGED <<analyzeVars, batchVars, registryVars, clientVars, macroVars>>

Spec == Init /\ [][Next]_vars

----------------------------------------------------------------------------
(* read_png_pixels as one call: the steps above, run to the end. *)

RECURSIVE ReadChunks(_, _, _)
ReadChunks(chunks, i, h) ==
    IF i > Len(chunks) THEN [h |-> h, exc |-> ""]
    ELSE Let(LAMBDA s :
                 IF s.end = "next" THEN ReadChunks(chunks, i + 1, s.h)
                 ELSE IF s.end = "break" THEN [h |-> s.h, exc |-> ""]
                 ELSE [h |-> s.h, exc |-> s.end],
             ChunkStep(h, chunks[i]))

\* the scanline loop with `left` passes to go, appending to px
RECURSIVE ReadScanlines(_, _, _, _, _, _, _)
ReadScanlines(data, p, prev, w, bpp, left, px) ==
    IF left = 0 THEN [err |-> FALSE, px |-> px]
    ELSE Let(LAMBDA s :
                 IF s.err THEN [err |-> TRUE, px |-> <<>>]
                 ELSE ReadScanlines(data, s.pos, s.row, w, bpp, left - 1, px \o s.px),
             ScanlineStep(data, p, prev, w, bpp))

Raised(e) == [exc |-> e, pixels |-> <<>>, width |-> 0, height |-> 0]

\* the scanline part, on header fields h and decompressed stream `data`
Scanlines(h, data) ==
    Let(LAMBDA r :
            IF r.err THEN Raised("IndexError")
            ELSE [exc |-> "", pixels |-> r.px, width |-> h.width, height |-> h.height],
        ReadScanlines(data, 0, Zeros(h.width * Bpp(h.color_type)), h.width,
                      Bpp(h.color_type), h.height, <<>>))

read_png_pixels(f) ==
    IF ~f.readable THEN Raised("OSError")
    ELSE IF ~SignatureOK(f.sig) THEN Raised("ValueError")
    ELSE Let(LAMBDA c :
                 IF c.exc # "" THEN Raised(c.exc)
                 ELSE IF DimensionsMissing(c.h.width, c.h.height)
                 THEN Raised("ValueError")
                 ELSE Let(LAMBDA z :
                              IF z.err THEN Raised("zlib.error")
                              ELSE Scanlines(c.h, z.data),
                          zlib_decompress(c.h.idat_data)),
             ReadChunks(f.chunks, 1, Header0))

----------------------------------------------------------------------------
(* Exact arithmetic for the floats of analyze and compare. *)

RECURSIVE GCD(_, _)
GCD(a, b) == IF b = 0 THEN Abs(a) ELSE Let(LAMBDA r : GCD(b, r), a % b)

LCM(a, b) == Let2(LAMBDA x, y : (x \div GCD(x, y)) * y, a, b)

\* the fraction n/d (d > 0) in lowest terms
Rat(n, d) ==
    Let2(LAMBDA nn, dd :
             Let(LAMBDA g : [num |-> nn \div g, den |-> dd \div g], GCD(nn, dd)),
         n, d)

RatAdd(a, b) ==
    Let2(LAMBDA x, y :
             Let(LAMBDA l : Rat(x.num * (l \div x.den) + y.num * (l \div y.den), l),
                 LCM(x.den, y.den)),
         a, b)

RatSub(a, b) == RatAdd(a, [num |-> -b.num, den |-> b.den])

RatLeq(a, b) == a.num * b.den <= b.num * a.den

RatZero == [num |-> 0, den |-> 1]
RatOne == [num |-> 1, den |-> 1]

\* Large integers are kept as hi * Million + lo with 0 <= lo < Million.
Million == 1000000

Big(hi, lo) == Let(LAMBDA l : [hi |-> hi + l \div Million, lo |-> l % Million], lo)

\* (1000 * a + r)^2 for 0 <= r < 1000
BigSquare(x) ==
    Let(LAMBDA v :
            LET a == v \div 1000
                r == v % 1000
                t == 2 * a * r
            IN Big(a * a + t \div 1000, (t % 1000) * 1000 + r * r),
        x)

BigAdd(x, y) == Let2(LAMBDA u, v : Big(u.hi + v.hi, u.lo + v.lo), x, y)
BigScale(x, k) == Let(LAMBDA u : Big(u.hi * k, u.lo * k), x)
\* x - y for x >= y
BigSub(x, y) == Let2(LAMBDA u, v : Big(u.hi - v.hi - 1, u.lo - v.lo + Million), x, y)

----------------------------------------------------------------------------
(* analyze: the metrics of one image. *)

\* 0.299 * r + 0.587 * g + 0.114 * b, times 1000
Luminance(px) == 299 * px[1] + 587 * px[2] + 114 * px[3]

Max3(px) == Max(px[1], Max(px[2], px[3]))
Min3(px) == Min(px[1], Min(px[2], px[3]))

\* the mutant: a black pixel counts as fully saturated
Saturation_BlackIsFull(px) ==
    IF Max3(px) > 0 THEN Rat(Max3(px) - Min3(px), Max3(px)) ELSE RatOne

\* the mutant: the spread is divided by the smallest channel
Saturation_OverMin(px) ==
    IF Min3(px) > 0 THEN Rat(Max3(px) - Min3(px), Min3(px)) ELSE RatZero

\* (max_c - min_c) / max_c if max_c > 0 else 0
Saturation(px) ==
    IF Max3(px) > 0 THEN Rat(Max3(px) - Min3(px), Max3(px)) ELSE RatZero

\* the mutant: bins of width 15
Bucket_Width15(lum) == Min(lum \div 15000, 15)

\* min(int(b / 16), 15), for a luminance times 1000
Bucket(lum) == Min(lum \div 16000, 15)

RECURSIVE Histogram(_, _)
Histogram(lums, hist) ==
    IF lums = <<>> THEN hist
    ELSE Histogram(Tail(lums),
                   [hist EXCEPT ![Bucket(Head(lums)) + 1] = @ + 1])

RECURSIVE MinSeq(_)
MinSeq(s) == IF Len(s) = 1 THEN s[1] ELSE Let(LAMBDA m : Min(Head(s), m), MinSeq(Tail(s)))

RECURSIVE MaxSeq(_)
MaxSeq(s) == IF Len(s) = 1 THEN s[1] ELSE Let(LAMBDA m : Max(Head(s), m), MaxSeq(Tail(s)))

RECURSIVE RatSum(_)
RatSum(s) == IF s = <<>> THEN RatZero ELSE RatAdd(Head(s), RatSum(Tail(s)))

RECURSIVE BigSquareSum(_)
BigSquareSum(s) ==
    IF s = <<>> THEN Big(0, 0) ELSE BigAdd(BigSquare(Head(s)), BigSquareSum(Tail(s)))

\* the mutant: the share of red
ColorTemp_RedShare(red_sum, blue_sum) ==
    IF red_sum + blue_sum > 0 THEN Rat(red_sum, red_sum + blue_sum) ELSE Rat(1, 2)

\* blue_sum / total_rb if total_rb > 0 else 0.5
ColorTemp(red_sum, blue_sum) ==
    IF red_sum + blue_sum > 0 THEN Rat(blue_sum, red_sum + blue_sum) ELSE Rat(1, 2)

\* The ImageMetrics of a pixel list.  brightness_std is kept as its square,
\* brightness_var = (hi + lo / Million) / n^2; the path field is left out.
ImageMetrics(px, w, h) ==
    Let2(LAMBDA brightnesses, saturations :
             LET n == Len(brightnesses)
                 red_sum == SumSeq([i \in 1..n |-> px[i][1]])
                 blue_sum == SumSeq([i \in 1..n |-> px[i][3]])
                 total == SumSeq(brightnesses)
                 brightness_min == MinSeq(brightnesses) \div 1000
                 brightness_max == MaxSeq(brightnesses) \div 1000
             IN [ok |-> TRUE,
                 brightness_mean |-> Rat(total, 1000 * n),
                 brightness_var |->
                     [n |-> n,
                      sq |-> BigSub(BigScale(BigSquareSum(brightnesses), n),
                                    BigSquare(total))],
                 brightness_min |-> brightness_min,
                 brightness_max |-> brightness_max,
                 contrast_ratio |-> Rat(brightness_max, Max(brightness_min, 1)),
                 color_temp |-> ColorTemp(red_sum, blue_sum),
                 saturation_mean |->
                     Let(LAMBDA sat : Rat(sat.num, sat.den * n), RatSum(saturations)),
                 histogram |-> Histogram(brightnesses, Zeros(16)),
                 width |-> w,
                 height |-> h],
         [i \in 1..Len(px) |-> Luminance(px[i])],
         [i \in 1..Len(px) |-> Saturation(px[i])])

analyze(f) ==
    Let(LAMBDA d :
            IF d.exc # "" THEN Failed(d.exc)
            ELSE IF d.pixels = <<>> THEN Failed("ZeroDivisionError")
            ELSE ImageMetrics(d.pixels, d.width, d.height),
        read_png_pixels(f))

----------------------------------------------------------------------------
(* ImageMetrics.diagnose: the issue tags of one ImageMetrics.  A tag is the  *)
(* word its message begins with; the rest of the message is left out.        *)

\* the fraction a is below / above the integer k, or the fraction n / d
RatBelow(a, n, d) == a.num * d < n * a.den
RatAbove(a, n, d) == a.num * d > n * a.den

\* the mutant: four separate ifs instead of one if / elif chain
ExposureTags_SeparateIfs(m) ==
    (IF RatBelow(m.brightness_mean, 30, 1) THEN <<"UNDEREXPOSED">> ELSE <<>>)
        \o (IF RatBelow(m.brightness_mean, 60, 1) THEN <<"DARK">> ELSE <<>>)
        \o (IF RatAbove(m.brightness_mean, 220, 1) THEN <<"OVEREXPOSED">> ELSE <<>>)
        \o (IF RatAbove(m.brightness_mean, 180, 1) THEN <<"BRIGHT">> ELSE <<>>)

\* the if / elif chain on brightness_mean
ExposureTags(m) ==
    IF RatBelow(m.brightness_mean, 30, 1) THEN <<"UNDEREXPOSED">>
    ELSE IF RatBelow(m.brightness_mean, 60, 1) THEN <<"DARK">>
    ELSE IF RatAbove(m.brightness_mean, 220, 1) THEN <<"OVEREXPOSED">>
    ELSE IF RatAbove(m.brightness_mean, 180, 1) THEN <<"BRIGHT">>
    ELSE <<>>

\* brightness_std < 20, on the square of the deviation times n^2
StdBelow20(m) == m.brightness_var.sq.hi < 400 * m.brightness_var.n * m.brightness_var.n

\* the mutant: the contrast ratio is looked at only when the deviation is not low
ContrastTags_Chained(m) ==
    IF StdBelow20(m) THEN <<"LOW_CONTRAST">>
    ELSE IF RatAbove(m.contrast_ratio, 100, 1) THEN <<"HIGH_CONTRAST">>
    ELSE <<>>

\* the two ifs on brightness_std and contrast_ratio
ContrastTags(m) ==
    (IF StdBelow20(m) THEN <<"LOW_CONTRAST">> ELSE <<>>)
        \o (IF RatAbove(m.contrast_ratio, 100, 1) THEN <<"HIGH_CONTRAST">> ELSE <<>>)

SaturationTags(m) ==
    IF RatBelow(m.saturation_mean, 1, 10) THEN <<"DESATURATED">> ELSE <<>>

ColorCastTags(m) ==
    IF RatBelow(m.color_temp, 3, 10) THEN <<"VERY_WARM">>
    ELSE IF RatAbove(m.color_temp, 7, 10) THEN <<"VERY_COOL">>
    ELSE <<>>

\* histogram[0] / total > 0.1 and histogram[-1] / total > 0.1, if total > 0
ClippingTags(m) ==
    Let(LAMBDA total :
            IF total > 0
            THEN (IF 10 * m.histogram[1] > total THEN <<"SHADOW_CLIPPING">> ELSE <<>>)
                     \o (IF 10 * m.histogram[Len(m.histogram)] > total
                         THEN <<"HIGHLIGHT_CLIPPING">> ELSE <<>>)
            ELSE <<>>,
        SumSeq(m.histogram))

diagnose(m) ==
    ExposureTags(m) \o ContrastTags(m) \o SaturationTags(m) \o ColorCastTags(m)
        \o ClippingTags(m)

----------------------------------------------------------------------------
(* IEEE 754 doubles, for the histogram correlation of compare.  A double    *)
(* is sign * man * 2^exp with 2^52 <= man < 2^53 (zero: sign 0), and man,   *)
(* an integer of 53 bits, is kept as hi * Wide28 + lo.  Results are rounded *)
(* to nearest, ties to even; x ** 0.5 is taken as the correctly rounded     *)
(* square root.                                                             *)

Wide28 == 268435456       \* 2^28
Limb14 == 16384           \* 2^14
ManMinHi == 16777216      \* 2^52 / 2^28: the hi part of the least mantissa
ManBits == 53

Wide(hi, lo) == Let(LAMBDA l : [hi |-> hi + l \div Wide28, lo |-> l % Wide28], lo)
WideLeq(x, y) == x.hi < y.hi \/ (x.hi = y.hi /\ x.lo <= y.lo)
\* x - y for x >= y
WideSub(x, y) ==
    IF x.lo >= y.lo THEN [hi |-> x.hi - y.hi, lo |-> x.lo - y.lo]
    ELSE [hi |-> x.hi - y.hi - 1, lo |-> x.lo + Wide28 - y.lo]
\* k * x + c for small k and c
WideTimes(x, k, c) == Wide(x.hi * k, x.lo * k + c)

FloatZero == [sign |-> 0, man |-> [hi |-> 0, lo |-> 0], exp |-> 0]
FloatOne == [sign |-> 1, man |-> [hi |-> ManMinHi, lo |-> 0], exp |-> 1 - ManBits]

\* the double of sign sg whose mantissa is man, or man + 1 when `up`
Rounded(sg, man, exp, up) ==
    IF ~up THEN [sign |-> sg, man |-> man, exp |-> exp]
    ELSE Let(LAMBDA m : IF m.hi = 2 * ManMinHi
                        THEN [sign |-> sg, man |-> [hi |-> ManMinHi, lo |-> 0],
                              exp |-> exp + 1]
                        ELSE [sign |-> sg, man |-> m, exp |-> exp],
             WideTimes(man, 1, 1))

\* One digit of a binary square root: from the root q and remainder r of N
\* to those of 4 * N + bits.
SqrtStep(s, bits) ==
    Let2(LAMBDA r4, t :
             IF WideLeq(t, r4)
             THEN [q |-> WideTimes(s.q, 2, 1), r |-> WideSub(r4, t)]
             ELSE [q |-> WideTimes(s.q, 2, 0), r |-> r4],
         WideTimes(s.r, 4, bits), WideTimes(s.q, 4, 1))

\* the integer square root of a and its remainder
RECURSIVE SqrtRem(_)
SqrtRem(a) ==
    IF a = 0 THEN [q |-> [hi |-> 0, lo |-> 0], r |-> [hi |-> 0, lo |-> 0]]
    ELSE Let(LAMBDA s : SqrtStep(s, a % 4), SqrtRem(a \div 4))

\* k more digits of the root, k >= 1 (the first half of them, then the rest)
RECURSIVE SqrtDigits(_, _)
SqrtDigits(s, k) ==
    IF k = 1 THEN SqrtStep(s, 0)
    ELSE Let(LAMBDA half : SqrtDigits(half, k - k \div 2), SqrtDigits(s, k \div 2))

\* the number of base-4 digits of a
RECURSIVE Digits4(_)
Digits4(a) == IF a = 0 THEN 0 ELSE 1 + Digits4(a \div 4)

\* float(a) ** 0.5 for an integer a > 0
FloatSqrt(a) ==
    Let(LAMBDA s : Rounded(1, s.q, Digits4(a) - ManBits, ~WideLeq(s.r, s.q)),
        SqrtDigits(SqrtRem(a), ManBits - Digits4(a)))

\* the four 14-bit limbs of a mantissa, least first
Limbs(m) == <<m.lo % Limb14, m.lo \div Limb14, m.hi % Limb14, m.hi \div Limb14>>

\* the limbs of a number given as column sums, least first
RECURSIVE Carry(_, _, _)
Carry(cols, carry, out) ==
    IF cols = <<>> THEN Append(out, carry)
    ELSE Let(LAMBDA v : Carry(Tail(cols), v \div Limb14, Append(out, v % Limb14)),
             Head(cols) + carry)

\* the eight limbs of the product of two mantissas
MantissaProduct(x, y) ==
    Let2(LAMBDA a, b :
             Carry([k \in 1..7 |->
                       SumSeq([i \in 1..4 |->
                                  IF k + 1 - i \in 1..4 THEN a[i] * b[k + 1 - i] ELSE 0])],
                   0, <<>>),
         Limbs(x), Limbs(y))

\* x * y for doubles x, y > 0
FloatMul(x, y) ==
    Let(LAMBDA p :
            LET shift == IF p[8] >= 128 THEN 11 ELSE 10   \* product >= 2^105 or not
                lowdiv == 2 ^ shift
                highmul == 2 ^ (14 - shift)
                u == [k \in 1..4 |-> p[k + 3] \div lowdiv + (p[k + 4] % lowdiv) * highmul]
                round_bit == (p[4] \div (2 ^ (shift - 1))) % 2
                sticky == p[4] % (2 ^ (shift - 1)) # 0 \/ p[1] # 0 \/ p[2] # 0 \/ p[3] # 0
            IN Rounded(1, [hi |-> u[4] * Limb14 + u[3], lo |-> u[2] * Limb14 + u[1]],
                       x.exp + y.exp + 42 + shift,
                       round_bit = 1 /\ (sticky \/ u[1] % 2 = 1)),
        MantissaProduct(x.man, y.man))

\* the number of bits of c
RECURSIVE Digits2(_)
Digits2(c) == IF c = 0 THEN 0 ELSE 1 + Digits2(c \div 2)

\* an integer 0 < c < 2^25 as a double: shifted left until it has 53 bits
FloatOfInt(c) ==
    LET shift == ManBits - Digits2(c)      \* 25 or more
    IN [sign |-> 1, man |-> [hi |-> c * 2 ^ (shift - 28), lo |-> 0], exp |-> -shift]

\* one more bit of the quotient q, from the remainder r and the divisor d
DivStep(s, d) ==
    IF WideLeq(d, s.r)
    THEN [q |-> WideTimes(s.q, 2, 1), r |-> WideTimes(WideSub(s.r, d), 2, 0)]
    ELSE [q |-> WideTimes(s.q, 2, 0), r |-> WideTimes(s.r, 2, 0)]

\* k more bits, k >= 1 (the first half of them, then the rest)
RECURSIVE DivLoop(_, _, _)
DivLoop(s, d, k) ==
    IF k = 1 THEN DivStep(s, d)
    ELSE Let(LAMBDA half : DivLoop(half, d, k - k \div 2), DivLoop(s, d, k \div 2))

\* x / y for doubles x, y > 0, with the sign sg
FloatDiv(sg, x, y) ==
    LET ahead == WideLeq(y.man, x.man)    \* the quotient of the mantissas is >= 1
    IN Let(LAMBDA s :
               Rounded(sg, s.q,
                       x.exp - y.exp - (IF ahead THEN ManBits - 1 ELSE ManBits),
                       \/ ~WideLeq(s.r, y.man)
                       \/ (s.r = y.man /\ s.q.lo % 2 = 1)),
           DivLoop([q |-> [hi |-> 0, lo |-> 0],
                    r |-> IF ahead THEN x.man ELSE WideTimes(x.man, 2, 0)],
                   y.man, ManBits))

\* |x| <= 1.0
FloatAbsLeqOne(x) ==
    x.sign = 0 \/ x.exp < FloatOne.exp \/ (x.exp = FloatOne.exp /\ x.man = FloatOne.man)

----------------------------------------------------------------------------
(* compare: the differences of two images. *)

\* The three sums of the correlation.  The means are multiples of 1/16 and
\* the sums are exact in doubles: cov, var_a and var_b are these integers
\* over 256.
HistogramSums(ha, hb) ==
    LET n == Len(ha) IN
    Let2(LAMBDA da, db :
             [cov |-> SumSeq([i \in 1..n |-> da[i] * db[i]]),
              var_a |-> SumSeq([i \in 1..n |-> da[i] * da[i]]),
              var_b |-> SumSeq([i \in 1..n |-> db[i] * db[i]])],
         [i \in 1..n |-> n * ha[i] - SumSeq(ha)],
         [i \in 1..n |-> n * hb[i] - SumSeq(hb)])

\* cov / (std_a * std_b) if std_a > 0 and std_b > 0 else 0, as a double; the
\* factors 1/256 of cov and 1/16 of std_a and std_b are powers of two and
\* cancel without rounding
Correlation(ha, hb) ==
    Let(LAMBDA t :
            IF t.var_a > 0 /\ t.var_b > 0
            THEN IF t.cov = 0 THEN FloatZero
                 ELSE FloatDiv(IF t.cov > 0 THEN 1 ELSE -1,
                               FloatOfInt(Abs(t.cov)),
                               FloatMul(FloatSqrt(t.var_a), FloatSqrt(t.var_b)))
            ELSE FloatZero,
        HistogramSums(ha, hb))

\* the mutant: the differences are taken A - B
compare_AMinusB(fa, fb) ==
    Let2(LAMBDA a, b :
             IF ~a.ok THEN Failed(a.exc)
             ELSE IF ~b.ok THEN Failed(b.exc)
             ELSE [ok |-> TRUE,
                   brightness_diff |-> RatSub(a.brightness_mean, b.brightness_mean),
                   contrast_diff |-> RatSub(a.contrast_ratio, b.contrast_ratio),
                   color_temp_diff |-> RatSub(a.color_temp, b.color_temp),
                   saturation_diff |-> RatSub(a.saturation_mean, b.saturation_mean),
                   histogram_correlation |-> Correlation(a.histogram, b.histogram)],
         analyze(fa), analyze(fb))

\* the mutant: a second image that fails to analyze is replaced by the first
compare_SecondOptional(fa, fb) ==
    Let2(LAMBDA a, b :
             IF ~a.ok THEN Failed(a.exc)
             ELSE [ok |-> TRUE,
                   brightness_diff |-> RatZero,
                   contrast_diff |-> RatZero,
                   color_temp_diff |-> RatZero,
                   saturation_diff |-> RatZero,
                   histogram_correlation |-> FloatZero],
         analyze(fa), analyze(fb))

compare(fa, fb) ==
    Let2(LAMBDA a, b :
             IF ~a.ok THEN Failed(a.exc)
             ELSE IF ~b.ok THEN Failed(b.exc)
             ELSE [ok |-> TRUE,
                   brightness_diff |-> RatSub(b.brightness_mean, a.brightness_mean),
                   contrast_diff |-> RatSub(b.contrast_ratio, a.contrast_ratio),
                   color_temp_diff |-> RatSub(b.color_temp, a.color_temp),
                   saturation_diff |-> RatSub(b.saturation_mean, a.saturation_mean),
                   histogram_correlation |-> Correlation(a.histogram, b.histogram)],
         analyze(fa), analyze(fb))

----------------------------------------------------------------------------
(* The image files analyze and compare are run on. *)

\* most pixels of an enumerated image
MaxPixels == 2

\* a truecolor file of w x h pixels, every row with filter type 0
EncodeImage(w, h, px) ==
    PngFile(IHDRData(w, h, 8, 2, 0),
            Flatten([y \in 1..h |->
                        <<0>> \o Flatten([x \in 1..w |-> px[(y - 1) * w + x]])]))

\* black, near black, white, red, dark red, blue, a brown
Palette ==
    {<<0, 0, 0>>, <<1, 1, 1>>, <<255, 255, 255>>, <<255, 0, 0>>, <<100, 0, 0>>,
     <<0, 0, 255>>, <<200, 100, 50>>}

\* sixteen greys, one in the middle of each histogram bucket
GreyRamp == [k \in 1..16 |-> <<16 * k - 8, 16 * k - 8, 16 * k - 8>>]

\* every image of up to MaxPixels palette pixels, as one row and as one column
PaletteImages ==
    UNION {UNION {{EncodeImage(n, 1, px), EncodeImage(1, n, px)} :
                      px \in [1..n -> Palette]} : n \in 1..MaxPixels}

\* a file whose compressed stream is corrupt
CorruptStream(f) == [f EXCEPT !.chunks[2].data = <<ZlibHeader, 0, 0, 0, 0, 0>>]

\* files analyze fails on: a wrong signature, a stream one row short, a
\* corrupt stream, a zero height, no IHDR, a file that cannot be opened
BrokenImages ==
    {[EncodeImage(1, 1, <<<<0, 0, 0>>>>) EXCEPT !.sig = <<137, 80, 88, 71, 13, 10, 26, 10>>],
     PngFile(IHDRData(1, 2, 8, 2, 0), <<0, 255, 0, 0>>),
     CorruptStream(EncodeImage(1, 1, <<<<0, 0, 0>>>>)),
     PngFile(IHDRData(1, 0, 8, 2, 0), <<0, 0, 0, 0>>),
     [EncodeImage(1, 1, <<<<0, 0, 0>>>>) EXCEPT !.chunks[1].type = "tEXt"],
     Unreadable(EncodeImage(1, 1, <<<<0, 0, 0>>>>))}

\* four greys in four different buckets
FourGreys == EncodeImage(4, 1, SubSeq(GreyRamp, 13, 16))

\* 2x2 black images: rows of filter type 0, rows of filter types 4 and 2, and
\* a 1x1 black pixel with an alpha byte
BlackImages ==
    {EncodeImage(2, 2, [i \in 1..4 |-> <<0, 0, 0>>]),
     PngFile(IHDRData(2, 2, 8, 2, 0), <<4>> \o Zeros(6) \o <<2>> \o Zeros(6)),
     PngFile(IHDRData(1, 1, 8, 6, 0), <<0, 0, 0, 0, 255>>)}

ImageFiles ==
    PaletteImages \cup {EncodeImage(16, 1, GreyRamp), FourGreys} \cup BlackImages
        \cup BrokenImages

\* the second file of a comparison, besides the first file itself
ReferenceImages ==
    {EncodeImage(1, 1, <<<<0, 0, 0>>>>), EncodeImage(1, 1, <<<<255, 255, 255>>>>),
     EncodeImage(2, 1, <<<<255, 0, 0>>, <<0, 0, 255>>>>),
     EncodeImage(16, 1, GreyRamp),
     PngFile(IHDRData(1, 2, 8, 2, 0), <<0, 255, 0, 0>>),
     CorruptStream(EncodeImage(1, 1, <<<<0, 0, 0>>>>)),
     Unreadable(EncodeImage(1, 1, <<<<0, 0, 0>>>>))}

----------------------------------------------------------------------------
(* analyze and compare as whole calls. *)

DecodeIdle ==
    /\ file = NoFile
    /\ pc = "idle" /\ exc = "" /\ cpos = 1
    /\ width = 0 /\ height = 0 /\ bit_depth = 0 /\ color_type = 0
    /\ idat_data = <<>> /\ raw = <<>> /\ pos = 0 /\ prev_row = <<>>
    /\ rows = 0 /\ pixels = <<>> /\ calls = {}

\* analyze(path_a)
Analyze ==
    /\ apc = "ready"
    /\ metrics = NotRun
    /\ metrics' = analyze(path_a)
    /\ UNCHANGED <<path_a, path_b, apc, comparison, reverse, issues>>

\* compare(path_a, path_b)
Compare ==
    /\ apc = "ready"
    /\ comparison = NotRun
    /\ comparison' = compare(path_a, path_b)
    /\ UNCHANGED <<path_a, path_b, apc, metrics, reverse, issues>>

\* compare(path_b, path_a): the same two files, the other way round
CompareReverse ==
    /\ apc = "ready"
    /\ reverse = NotRun
    /\ reverse' = compare(path_b, path_a)
    /\ UNCHANGED <<path_a, path_b, apc, metrics, comparison, issues>>

\* metrics.diagnose()
Diagnose ==
    /\ metrics.ok
    /\ ~issues.run
    /\ issues' = [run |-> TRUE, tags |-> diagnose(metrics)]
    /\ UNCHANGED <<path_a, path_b, apc, metrics, comparison, reverse>>

InitAnalyze ==
    /\ DecodeIdle
    /\ path_a \in ImageFiles
    /\ path_b \in {path_a} \cup ReferenceImages
    /\ apc = "ready"
    /\ metrics = NotRun
    /\ comparison = NotRun
    /\ reverse = NotRun
    /\ issues = NoIssues
    /\ BatchIdle /\ RegistryIdle /\ ClientIdle /\ MacroIdle

NextAnalyze ==
    \/ Analyze /\ UNCHANGED <<decodeVars, batchVars, registryVars, clientVars, macroVars>>
    \/ Compare /\ UNCHANGED <<decodeVars, batchVars, registryVars, clientVars, macroVars>>
    \/ CompareReverse /\ UNCHANGED <<decodeVars, batchVars, registryVars, clientVars, macroVars>>
    \/ Diagnose /\ UNCHANGED <<decodeVars, batchVars, registryVars, clientVars, macroVars>>

SpecAnalyze == InitAnalyze /\ [][NextAnalyze]_vars

----------------------------------------------------------------------------
(* Properties of read_png_pixels, checked under Spec. *)

\* the chunks consumed so far that are IHDR chunks
HeadersRead == {i \in 1..(cpos - 1) : file.chunks[i].type = "IHDR"}

\* the interlace byte of the IHDR whose fields were captured last
InterlaceByte ==
    IF HeadersRead = {} THEN 0
    ELSE LET last == CHOOSE i \in HeadersRead : \A j \in HeadersRead : j <= i
         IN IF Len(file.chunks[last].data) >= 13 THEN file.chunks[last].data[13] ELSE 0

\* the filter-type byte of scanline k (0-based) of the decompressed stream
FilterByteOfRow(k) == raw[k * (1 + width * Bpp(color_type)) + 1]

\* C3: a row whose filter-type byte is not one of 0..4 makes the decode fail:
\* a decode that returned pixels read only filter types 0..4.
C3_UnknownFilterFails ==
    pc = "returned" => \A k \in 0..(height - 1) : FilterByteOfRow(k) \in 0..4

\* C4: a colour type other than 2 or 6 never yields pixels: the decode returns
\* only for colour types 2 and 6, and with any other colour type the first pass
\* of the scanline loop raises.
C4_UnsupportedColorTypeFails ==
    /\ pc = "returned" => color_type \in {2, 6}
    /\ (color_type \notin {2, 6} /\ pc = "scanlines") => (rows = 0 /\ rows < height)
    /\ (color_type \notin {2, 6} /\ "scanline" \in calls) =>
           (pc = "raised" /\ exc = "IndexError")

\* a grey or palette image with all the bytes its dimensions ask for, refused
C4_Witness ==
    /\ pc = "raised" /\ exc = "IndexError"
    /\ color_type \notin {2, 6} /\ width >= 1 /\ height >= 1
    /\ Len(raw) >= height * (1 + width)

\* C5: a bit depth other than 8, or an interlaced image, never yields pixels.
C5_UnsupportedDepthFails ==
    pc = "returned" => (bit_depth = 8 /\ InterlaceByte = 0)

\* C6: with a wrong signature the decode raises ValueError at once: no chunk
\* is read, nothing is decompressed, no pixel is produced.
C6_BadSignatureFailsFirst ==
    (file.sig # PNG_SIGNATURE /\ pc # "signature") =>
        /\ pc = "raised" /\ exc = "ValueError"
        /\ calls = {"signature"} /\ cpos = 1
        /\ idat_data = <<>> /\ raw = <<>> /\ pixels = <<>>

\* eight bytes that are not the signature, in front of well-formed chunks
C6_Witness ==
    /\ pc = "raised" /\ file.sig # PNG_SIGNATURE /\ Len(file.sig) = 8
    /\ Len(file.chunks) = 3

\* C7: once the chunk loop is over, a missing IHDR or a zero width or height
\* raises ValueError, and neither decompression nor the scanline loop starts.
C7_MissingDimensionsFail ==
    ("dimensions" \in calls /\ (HeadersRead = {} \/ width = 0 \/ height = 0)) =>
        /\ pc = "raised" /\ exc = "ValueError"
        /\ "decompress" \notin calls /\ "scanline" \notin calls
        /\ raw = <<>> /\ pixels = <<>>

\* a file with IDAT data and no IHDR at all, refused after the chunk loop
C7_Witness ==
    /\ pc = "raised" /\ "dimensions" \in calls
    /\ HeadersRead = {} /\ idat_data # <<>>

\* C8: a decompressed stream shorter than height * (1 + width * bpp) bytes
\* never yields pixels.
C8_TruncatedStreamFails ==
    pc = "returned" => Len(raw) >= height * (1 + width * Bpp(color_type))

----------------------------------------------------------------------------
(* Properties of analyze and compare, checked under SpecAnalyze. *)

\* the pixels analyze(path_a) works on
DecodedA == read_png_pixels(path_a).pixels

\* C1: the contrast ratio of every analyzed image is at least 1.
C1_ContrastAtLeastOne ==
    metrics.ok => metrics.contrast_ratio.num >= metrics.contrast_ratio.den

\* C2: comparing an image with itself gives four zero differences and a
\* histogram correlation of exactly 1.
C2_SelfCompareIsIdentity ==
    (comparison.ok /\ path_a = path_b) =>
        /\ comparison.brightness_diff.num = 0
        /\ comparison.contrast_diff.num = 0
        /\ comparison.color_temp_diff.num = 0
        /\ comparison.saturation_diff.num = 0
        /\ comparison.histogram_correlation = FloatOne

C10_SaturationAndTempInUnitRange ==
    metrics.ok =>
        /\ metrics.saturation_mean.den > 0
        /\ 0 <= metrics.saturation_mean.num
        /\ metrics.saturation_mean.num <= metrics.saturation_mean.den
        /\ metrics.color_temp.den > 0
        /\ 0 <= metrics.color_temp.num
        /\ metrics.color_temp.num <= metrics.color_temp.den

\* an image whose saturation and colour temperature are strictly inside (0, 1)
C10_Witness ==
    /\ metrics.ok
    /\ 0 < metrics.saturation_mean.num
    /\ metrics.saturation_mean.num < metrics.saturation_mean.den
    /\ 0 < metrics.color_temp.num
    /\ metrics.color_temp.num < metrics.color_temp.den

----------------------------------------------------------------------------
(* analyze_directory: every *.png of a directory, in sorted order.  A file  *)
(* name is the sequence of its characters' code points.                     *)

\* most entries of an enumerated directory
MaxFiles == 3

\* ".png"
PngSuffix == <<46, 112, 110, 103>>

\* the pattern "*.png" of directory.glob
GlobPng(name) ==
    Len(name) >= Len(PngSuffix)
        /\ SubSeq(name, Len(name) - Len(PngSuffix) + 1, Len(name)) = PngSuffix

\* the order of sorted() on paths of one directory: the names, compared
\* code point by code point, a proper prefix first
RECURSIVE PathLess(_, _)
PathLess(a, b) ==
    IF b = <<>> THEN FALSE
    ELSE IF a = <<>> THEN TRUE
    ELSE IF Head(a) # Head(b) THEN Head(a) < Head(b)
    ELSE PathLess(Tail(a), Tail(b))

\* sorted(S): the elements of S in ascending order
RECURSIVE sorted(_)
sorted(S) ==
    IF S = {} THEN <<>>
    ELSE Let(LAMBDA least : <<least>> \o sorted(S \ {least}),
             CHOOSE x \in S : \A y \in S \ {x} : PathLess(x, y))

\* the exception classes the decode and the metrics can raise
AnalysisErrors ==
    {"OSError", "ValueError", "struct.error", "IndexError", "zlib.error",
     "ZeroDivisionError"}

\* the mutant: only ValueError is caught
Caught_ValueErrorOnly(e) == e = "ValueError"

\* `except Exception`: every class above derives from Exception
Caught(e) == e \in AnalysisErrors

\* a.png, B.png, ab.png, c.png, and two names the pattern does not match:
\* a.txt and a.PNG
DirNames ==
    {<<97>> \o PngSuffix, <<66>> \o PngSuffix, <<97, 98>> \o PngSuffix,
     <<99>> \o PngSuffix, <<97, 46, 116, 120, 116>>, <<97, 46, 80, 78, 71>>}

\* two images, and four files analyze fails on: a wrong signature, a stream
\* one row short, a corrupt compressed stream, a file that cannot be opened
DirFiles ==
    {PngFile(IHDRData(1, 1, 8, 2, 0), <<0, 0, 0, 0>>),
     PngFile(IHDRData(1, 1, 8, 2, 0), <<0, 255, 255, 255>>),
     [PngFile(IHDRData(1, 1, 8, 2, 0), <<0, 0, 0, 0>>)
          EXCEPT !.sig = <<137, 80, 88, 71, 13, 10, 26, 10>>],
     PngFile(IHDRData(1, 2, 8, 2, 0), <<0, 255, 0, 0>>),
     [PngFile(IHDRData(1, 1, 8, 2, 0), <<0, 0, 0, 0>>)
          EXCEPT !.chunks[2].data = <<ZlibHeader, 0, 0, 0, 0, 0>>],
     Unreadable(PngFile(IHDRData(1, 1, 8, 2, 0), <<0, 0, 0, 0>>))}

\* every directory of at most MaxFiles entries
Directories ==
    UNION {[names -> DirFiles] :
               names \in {N \in SUBSET DirNames : Cardinality(N) <= MaxFiles}}

\* sorted(directory.glob("*.png"))
ListDirectory ==
    /\ dpc = "start"
    /\ listing' = sorted({name \in DOMAIN directory : GlobPng(name)})
    /\ dpc' = "loop"
    /\ UNCHANGED <<directory, results, warnings>>

\* one pass of the for loop: analyze(path) in its try block
AnalyzeNext ==
    /\ dpc = "loop"
    /\ listing # <<>>
    /\ listing' = Tail(listing)
    /\ LET path == Head(listing)
           m == analyze(directory[path])
       IN IF m.ok
          THEN /\ results' = Append(results, [path |-> path, metrics |-> m])
               /\ UNCHANGED <<warnings, dpc>>
          ELSE IF Caught(m.exc)
          THEN /\ warnings' = Append(warnings, path)
               /\ UNCHANGED <<results, dpc>>
          ELSE /\ dpc' = "raised"
               /\ UNCHANGED <<results, warnings>>
    /\ UNCHANGED directory

\* `return results`
ReturnResults ==
    /\ dpc = "loop"
    /\ listing = <<>>
    /\ dpc' = "returned"
    /\ UNCHANGED <<directory, listing, results, warnings>>

InitDirectory ==
    /\ DecodeIdle /\ AnalyzeIdle /\ RegistryIdle /\ ClientIdle /\ MacroIdle
    /\ directory \in Directories
    /\ listing = <<>> /\ results = <<>> /\ warnings = <<>>
    /\ dpc = "start"

NextDirectory ==
    \/ ListDirectory /\ UNCHANGED <<decodeVars, analyzeVars, registryVars, clientVars, macroVars>>
    \/ AnalyzeNext /\ UNCHANGED <<decodeVars, analyzeVars, registryVars, clientVars, macroVars>>
    \/ ReturnResults /\ UNCHANGED <<decodeVars, analyzeVars, registryVars, clientVars, macroVars>>

SpecDirectory == InitDirectory /\ [][NextDirectory]_vars

\* the names of the directory that the pattern matches
PngNames == {name \in DOMAIN directory : GlobPng(name)}

\* the paths of a list of results or warnings
PathsOf(s) == {s[i] : i \in 1..Len(s)}

\* C11: analyze_directory never raises because of a file; what it returns is
\* one ImageMetrics for each *.png that analyzes, and for no other file, in
\* ascending order of the file names; every failing *.png has its warning, so
\* the files after a failing one are visited too.
C11_BatchSkipsFailures ==
    /\ dpc # "raised"
    /\ dpc = "returned" =>
           /\ {results[i].path : i \in 1..Len(results)} =
                  {name \in PngNames : analyze(directory[name]).ok}
           /\ \A i \in 1..Len(results) :
                  /\ results[i].metrics.ok
                  /\ results[i].metrics = analyze(directory[results[i].path])
           /\ \A i, j \in 1..Len(results) :
                  i < j => PathLess(results[i].path, results[j].path)
           /\ PathsOf(warnings) = {name \in PngNames : ~analyze(directory[name]).ok}
           /\ Len(results) + Len(warnings) = Cardinality(PngNames)

\* a run that returned two results after warning about a file that sorts
\* before one of them and fails with an error other than ValueError
C11_Witness ==
    /\ dpc = "returned" /\ Len(results) = 2
    /\ \E i \in 1..Len(warnings) :
           /\ PathLess(warnings[i], results[2].path)
           /\ analyze(directory[warnings[i]]).exc # "ValueError"

----------------------------------------------------------------------------
(* Properties of the error paths of analyze and compare, under SpecAnalyze. *)

\* the fields of an ImageMetrics and of a ComparisonResult in the model, and
\* of a call that raised
MetricsFields ==
    {"ok", "brightness_mean", "brightness_var", "brightness_min", "brightness_max",
     "contrast_ratio", "color_temp", "saturation_mean", "histogram", "width", "height"}
ComparisonFields ==
    {"ok", "brightness_diff", "contrast_diff", "color_temp_diff", "saturation_diff",
     "histogram_correlation"}
ErrorFields == {"ok", "exc"}

\* C12: a failure of the decode is the failure of analyze, with the same
\* exception and no metrics at all; an ImageMetrics that is returned is
\* complete and covers every pixel of the image; compare fails, with no
\* ComparisonResult, exactly when one of its two analyze calls fails.
C12_FailuresAreFatal ==
    /\ metrics # NotRun =>
           LET d == read_png_pixels(path_a)
           IN /\ d.exc # "" =>
                     /\ ~metrics.ok /\ metrics.exc = d.exc
                     /\ DOMAIN metrics = ErrorFields
              /\ metrics.ok =>
                     /\ d.exc = ""
                     /\ DOMAIN metrics = MetricsFields
                     /\ Len(metrics.histogram) = 16
                     /\ SumSeq(metrics.histogram) = Len(d.pixels)
                     /\ metrics.width * metrics.height = Len(d.pixels)
    /\ comparison # NotRun =>
           /\ comparison.ok <=>
                  (read_png_pixels(path_a).exc = "" /\ read_png_pixels(path_b).exc = "")
           /\ comparison.ok => DOMAIN comparison = ComparisonFields
           /\ ~comparison.ok =>
                  /\ DOMAIN comparison = ErrorFields
                  /\ comparison.exc \in {read_png_pixels(path_a).exc,
                                         read_png_pixels(path_b).exc} \ {""}

\* a comparison that failed on its second image only, on a corrupt stream
C12_Witness ==
    /\ comparison # NotRun /\ ~comparison.ok /\ comparison.exc = "zlib.error"
    /\ read_png_pixels(path_a).exc = ""

----------------------------------------------------------------------------
(* Properties of the differences of compare, under SpecAnalyze. *)

\* d is the fraction y - x taken with its sign: positive, zero or negative as
\* y is above, at or below x
SignedDiff(d, x, y) ==
    /\ d.den > 0
    /\ (d.num > 0) <=> (y.num * x.den > x.num * y.den)
    /\ (d.num = 0) <=> (y.num * x.den = x.num * y.den)

\* d and e are fractions that are negations of each other
Negated(d, e) == d.den = e.den /\ d.num = -e.num

\* C13: the four differences of compare(A, B) are B's metric minus A's, those
\* of compare(B, A) are their exact negations, and the two calls give the same
\* histogram correlation.
C13_DifferencesAreSigned ==
    (comparison.ok /\ reverse.ok) =>
        LET a == analyze(path_a)
            b == analyze(path_b)
        IN /\ SignedDiff(comparison.brightness_diff, a.brightness_mean, b.brightness_mean)
           /\ SignedDiff(comparison.contrast_diff, a.contrast_ratio, b.contrast_ratio)
           /\ SignedDiff(comparison.color_temp_diff, a.color_temp, b.color_temp)
           /\ SignedDiff(comparison.saturation_diff, a.saturation_mean, b.saturation_mean)
           /\ Negated(comparison.brightness_diff, reverse.brightness_diff)
           /\ Negated(comparison.contrast_diff, reverse.contrast_diff)
           /\ Negated(comparison.color_temp_diff, reverse.color_temp_diff)
           /\ Negated(comparison.saturation_diff, reverse.saturation_diff)
           /\ comparison.histogram_correlation = reverse.histogram_correlation

\* two different images compared both ways: B brighter and bluer than A, A
\* more saturated than B
C13_Witness ==
    /\ comparison.ok /\ reverse.ok /\ path_a # path_b
    /\ comparison.brightness_diff.num > 0 /\ comparison.color_temp_diff.num > 0
    /\ comparison.saturation_diff.num < 0
    /\ comparison.histogram_correlation.sign # 0

----------------------------------------------------------------------------
(* Properties of the histogram correlation, under SpecAnalyze. *)

\* the histogram has zero variance: its 16 counts are equal
Constant(h) == \A i \in 1..Len(h) : h[i] = h[1]

\* C14: the histogram correlation lies in [-1, 1], has the sign of the
\* covariance of the two histograms, and is 0 whenever one of the two
\* histograms has zero variance.
C14_CorrelationInRange ==
    comparison.ok =>
        LET ha == analyze(path_a).histogram
            hb == analyze(path_b).histogram
        IN /\ FloatAbsLeqOne(comparison.histogram_correlation)
           /\ (Constant(ha) \/ Constant(hb)) =>
                  comparison.histogram_correlation = FloatZero
           /\ ~(Constant(ha) \/ Constant(hb)) =>
                  \/ /\ comparison.histogram_correlation.sign = 1
                     /\ HistogramSums(ha, hb).cov > 0
                  \/ /\ comparison.histogram_correlation.sign = 0
                     /\ HistogramSums(ha, hb).cov = 0
                  \/ /\ comparison.histogram_correlation.sign = -1
                     /\ HistogramSums(ha, hb).cov < 0

----------------------------------------------------------------------------
(* diagnose as a pure function: every combination of metrics at, just below *)
(* and just above the thresholds of the rules.                              *)

DiagnoseMeans ==
    {Rat(0, 1), Rat(29999, 1000), Rat(30, 1), Rat(59999, 1000), Rat(60, 1),
     Rat(120, 1), Rat(180, 1), Rat(180001, 1000), Rat(220, 1), Rat(220001, 1000),
     Rat(255, 1)}

\* deviations 0, just below 20, 20 and 30, as squares
DiagnoseVariances ==
    {[n |-> 1, sq |-> Big(0, 0)], [n |-> 1, sq |-> Big(399, 999999)],
     [n |-> 1, sq |-> Big(400, 0)], [n |-> 1, sq |-> Big(900, 0)]}

DiagnoseContrasts == {Rat(1, 1), Rat(100, 1), Rat(201, 2), Rat(255, 1)}

DiagnoseSaturations == {Rat(0, 1), Rat(99, 1000), Rat(1, 10), Rat(1, 2)}

DiagnoseTemps ==
    {Rat(0, 1), Rat(299, 1000), Rat(3, 10), Rat(1, 2), Rat(7, 10), Rat(701, 1000),
     Rat(1, 1)}

\* a histogram with the given counts in its first, a middle and its last bucket
HistogramOf(shadow, mid, highlight) ==
    [i \in 1..16 |-> IF i = 1 THEN shadow ELSE IF i = 16 THEN highlight
                     ELSE IF i = 8 THEN mid ELSE 0]

\* no pixel at all; shares of 0, exactly 10 and 20 per cent in either end
DiagnoseHistograms ==
    {HistogramOf(0, 0, 0), HistogramOf(0, 10, 0), HistogramOf(1, 9, 0),
     HistogramOf(2, 8, 0), HistogramOf(0, 9, 1), HistogramOf(0, 8, 2),
     HistogramOf(1, 8, 1), HistogramOf(2, 6, 2), HistogramOf(10, 0, 0)}

DiagnoseInputs ==
    {[ok |-> TRUE, brightness_mean |-> mean, brightness_var |-> var,
      brightness_min |-> 0, brightness_max |-> 255, contrast_ratio |-> contrast,
      color_temp |-> temp, saturation_mean |-> sat, histogram |-> hist,
      width |-> 1, height |-> 1] :
         mean \in DiagnoseMeans, var \in DiagnoseVariances,
         contrast \in DiagnoseContrasts, sat \in DiagnoseSaturations,
         temp \in DiagnoseTemps, hist \in DiagnoseHistograms}

InitDiagnose ==
    /\ DecodeIdle /\ BatchIdle /\ RegistryIdle /\ ClientIdle /\ MacroIdle
    /\ path_a = NoFile /\ path_b = NoFile /\ apc = "diagnose"
    /\ metrics \in DiagnoseInputs
    /\ comparison = NotRun /\ reverse = NotRun
    /\ issues = NoIssues

NextDiagnose == Diagnose /\ UNCHANGED <<decodeVars, batchVars, registryVars, clientVars, macroVars>>

SpecDiagnose == InitDiagnose /\ [][NextDiagnose]_vars

\* the tag t is among the issues
HasTag(t) == \E i \in 1..Len(issues.tags) : issues.tags[i] = t

ExposureNames == {"UNDEREXPOSED", "DARK", "OVEREXPOSED", "BRIGHT"}

\* C15: diagnose emits at most one exposure tag: UNDEREXPOSED iff mean < 30,
\* DARK iff 30 <= mean < 60, OVEREXPOSED iff mean > 220, BRIGHT iff
\* 180 < mean <= 220, and none iff 60 <= mean <= 180.
C15_OneExposureTag ==
    issues.run =>
        LET mean == metrics.brightness_mean
            emitted == {i \in 1..Len(issues.tags) : issues.tags[i] \in ExposureNames}
        IN /\ Cardinality(emitted) <= 1
           /\ HasTag("UNDEREXPOSED") <=> RatBelow(mean, 30, 1)
           /\ HasTag("DARK") <=> (~RatBelow(mean, 30, 1) /\ RatBelow(mean, 60, 1))
           /\ HasTag("OVEREXPOSED") <=> RatAbove(mean, 220, 1)
           /\ HasTag("BRIGHT") <=> (RatAbove(mean, 180, 1) /\ ~RatAbove(mean, 220, 1))
           /\ (emitted = {}) <=> (~RatBelow(mean, 60, 1) /\ ~RatAbove(mean, 180, 1))

\* a mean of exactly 30 diagnosed as DARK
C15_Witness ==
    /\ issues.run /\ metrics.brightness_mean = Rat(30, 1)
    /\ issues.tags[1] = "DARK"

\* the place of a tag in the rule table
RuleOrder(t) ==
    IF t \in ExposureNames THEN 1
    ELSE IF t = "LOW_CONTRAST" THEN 2
    ELSE IF t = "HIGH_CONTRAST" THEN 3
    ELSE IF t = "DESATURATED" THEN 4
    ELSE IF t \in {"VERY_WARM", "VERY_COOL"} THEN 5
    ELSE IF t = "SHADOW_CLIPPING" THEN 6
    ELSE IF t = "HIGHLIGHT_CLIPPING" THEN 7
    ELSE 0

\* C16: each of the other rules fires on its own condition and on nothing
\* else, and the tags come out in the order of the rule table.
C16_RulesAreIndependent ==
    issues.run =>
        LET total == SumSeq(metrics.histogram) IN
        /\ HasTag("LOW_CONTRAST") <=>
               metrics.brightness_var.sq.hi
                   < 400 * metrics.brightness_var.n * metrics.brightness_var.n
        /\ HasTag("HIGH_CONTRAST") <=>
               metrics.contrast_ratio.num > 100 * metrics.contrast_ratio.den
        /\ HasTag("DESATURATED") <=>
               10 * metrics.saturation_mean.num < metrics.saturation_mean.den
        /\ HasTag("VERY_WARM") <=> 10 * metrics.color_temp.num < 3 * metrics.color_temp.den
        /\ HasTag("VERY_COOL") <=> 10 * metrics.color_temp.num > 7 * metrics.color_temp.den
        /\ HasTag("SHADOW_CLIPPING") <=> (total > 0 /\ 10 * metrics.histogram[1] > total)
        /\ HasTag("HIGHLIGHT_CLIPPING") <=>
               (total > 0 /\ 10 * metrics.histogram[16] > total)
        /\ \A i \in 1..Len(issues.tags) : RuleOrder(issues.tags[i]) > 0
        /\ \A i, j \in 1..Len(issues.tags) :
               i < j => RuleOrder(issues.tags[i]) < RuleOrder(issues.tags[j])

\* a diagnosis in which a rule of every row of the table fired
C16_Witness ==
    /\ issues.run
    /\ issues.tags = <<"BRIGHT", "LOW_CONTRAST", "HIGH_CONTRAST", "DESATURATED",
                       "VERY_COOL", "SHADOW_CLIPPING", "HIGHLIGHT_CLIPPING">>

----------------------------------------------------------------------------
(* Properties of the metrics of particular images, under SpecAnalyze. *)

\* C17: an image whose pixels are all (0, 0, 0) has brightness_mean 0,
\* brightness_std 0 and every pixel in histogram bucket 0, and its diagnosis
\* includes UNDEREXPOSED, LOW_CONTRAST and DESATURATED.
C17_BlackImage ==
    (metrics.ok /\ \A i \in 1..Len(DecodedA) : DecodedA[i] = <<0, 0, 0>>) =>
        /\ metrics.brightness_mean.num = 0
        /\ metrics.brightness_var.sq.hi = 0 /\ metrics.brightness_var.sq.lo = 0
        /\ metrics.histogram[1] = metrics.width * metrics.height
        /\ \A k \in 2..16 : metrics.histogram[k] = 0
        /\ issues.run =>
               /\ HasTag("UNDEREXPOSED") /\ HasTag("LOW_CONTRAST")
               /\ HasTag("DESATURATED")

\* the 2x2 black image, analyzed and diagnosed
C17_Witness ==
    /\ metrics.ok /\ issues.run
    /\ metrics.width = 2 /\ metrics.height = 2 /\ metrics.histogram[1] = 4
    /\ \A i \in 1..Len(DecodedA) : DecodedA[i] = <<0, 0, 0>>

\* the sums of the red and of the blue channel of the image of path_a
RedSumA == SumSeq([i \in 1..Len(DecodedA) |-> DecodedA[i][1]])
BlueSumA == SumSeq([i \in 1..Len(DecodedA) |-> DecodedA[i][3]])

----------------------------------------------------------------------------
(* registry.py: resolve_connection.  The live instances are what              *)
(* list_instances() returns; one call sees the same list at every lookup.     *)
(* Names are sequences of code points.                                        *)

\* most instances alive at once
MaxInstances == 3

\* Optional[T]: None, or the value v
None == <<>>
Some(v) == <<v>>

\* `if x`: x is neither None nor the empty value of its type ("" or 0)
Truthy(x, empty) == x # None /\ x[1] # empty

\* str.lower() on ASCII text
lower(s) == [k \in 1..Len(s) |-> IF s[k] \in 65..90 THEN s[k] + 32 ELSE s[k]]

\* `a in b` on strings
Contains(b, a) ==
    \E k \in 0..(Len(b) - Len(a)) : SubSeq(b, k + 1, k + Len(a)) = a

\* int(s) succeeds: s is a run of decimal digits
IsDigits(s) == Len(s) > 0 /\ \A k \in 1..Len(s) : s[k] \in 48..57

\* int(s) for such a run
RECURSIVE DecimalValue(_)
DecimalValue(s) ==
    IF s = <<>> THEN 0
    ELSE 10 * DecimalValue(SubSeq(s, 1, Len(s) - 1)) + (s[Len(s)] - 48)

\* the first instance of the list the test holds for, or None
FirstInstance(instances, Test(_)) ==
    IF \E k \in 1..Len(instances) : Test(instances[k])
    THEN Some(instances[CHOOSE k \in 1..Len(instances) :
                  /\ Test(instances[k])
                  /\ \A j \in 1..(k - 1) : ~Test(instances[j])])
    ELSE None

find_instance(name_or_port, instances) ==
    LET by_port ==
            IF IsDigits(name_or_port)
            THEN FirstInstance(instances,
                     LAMBDA i : i.port = DecimalValue(name_or_port))
            ELSE None
        name_lower == lower(name_or_port)
        exact == FirstInstance(instances, LAMBDA i : lower(i.name) = name_lower)
        partial == FirstInstance(instances,
                       LAMBDA i : Contains(lower(i.name), name_lower))
    IN  IF by_port # None THEN by_port
        ELSE IF exact # None THEN exact
        ELSE partial

get_default_instance(instances) ==
    IF Len(instances) = 1 THEN Some(instances[1]) ELSE None

\* Instance.host is never set by list_instances: it keeps its default
Localhost == "localhost"
DefaultPort == 25580

\* the results of resolve_connection, with the number of list_instances calls
Address(h, p, n) == [result |-> [ok |-> TRUE, host |-> h, port |-> p], lookups |-> n]
ValueError(n) == [result |-> [ok |-> FALSE, exc |-> "ValueError"], lookups |-> n]

\* the mutant: the single live instance is preferred to the named one
resolve_connection_DefaultFirst(h, p, name, instances) ==
    IF Truthy(h, "") /\ Truthy(p, 0) THEN Address(h[1], p[1], 0)
    ELSE IF get_default_instance(instances) # None
    THEN Address(Localhost, get_default_instance(instances)[1].port, 1)
    ELSE IF Truthy(name, <<>>)
    THEN IF find_instance(name[1], instances) = None THEN ValueError(3)
         ELSE Address(Localhost, find_instance(name[1], instances)[1].port, 2)
    ELSE IF Len(instances) > 1 THEN ValueError(2)
    ELSE Address(IF Truthy(h, "") THEN h[1] ELSE Localhost,
                 IF Truthy(p, 0) THEN p[1] ELSE DefaultPort, 2)

resolve_connection(h, p, name, instances) ==
    IF Truthy(h, "") /\ Truthy(p, 0) THEN Address(h[1], p[1], 0)
    ELSE IF Truthy(name, <<>>)
    THEN LET found == find_instance(name[1], instances) IN
         IF found = None THEN ValueError(2)
         ELSE Address(Localhost, found[1].port, 1)
    ELSE LET default == get_default_instance(instances) IN
         IF default # None THEN Address(Localhost, default[1].port, 1)
         ELSE IF Len(instances) > 1 THEN ValueError(2)
         ELSE Address(IF Truthy(h, "") THEN h[1] ELSE Localhost,
                      IF Truthy(p, 0) THEN p[1] ELSE DefaultPort, 2)

\* Dev:25581, dev2:25582, an instance named 25581 on port 25583, and
\* Prod on the fallback port
InstancePool ==
    {[name |-> <<68, 101, 118>>, port |-> 25581],
     [name |-> <<100, 101, 118, 50>>, port |-> 25582],
     [name |-> <<50, 53, 53, 56, 49>>, port |-> 25583],
     [name |-> <<80, 114, 111, 100>>, port |-> DefaultPort]}

\* every list of at most MaxInstances different live instances
Registries ==
    UNION {{r \in [1..n -> InstancePool] : \A j, k \in 1..n : r[j] = r[k] => j = k}
           : n \in 0..MaxInstances}

\* --host: absent, empty, or a name
HostArgs == {None, Some(""), Some("example.org")}

\* --port: absent, 0, or a port
PortArgs == {None, Some(0), Some(25565)}

\* --instance: absent, "", dev, DEV2, rod, x, 25581, 25583, 25590, 2558
InstanceArgs ==
    {None, Some(<<>>), Some(<<100, 101, 118>>), Some(<<68, 69, 86, 50>>),
     Some(<<114, 111, 100>>), Some(<<120>>), Some(<<50, 53, 53, 56, 49>>),
     Some(<<50, 53, 53, 56, 51>>), Some(<<50, 53, 53, 57, 48>>),
     Some(<<50, 53, 53, 56>>)}

ResolveConnection ==
    /\ connection = NotRun
    /\ \E h \in HostArgs, p \in PortArgs, name \in InstanceArgs :
         /\ host' = h /\ port' = p /\ instance' = name
         /\ connection' = resolve_connection(h, p, name, registry).result
         /\ lookups' = resolve_connection(h, p, name, registry).lookups
    /\ UNCHANGED registry

InitRegistry ==
    /\ DecodeIdle /\ AnalyzeIdle /\ BatchIdle /\ ClientIdle /\ MacroIdle
    /\ registry \in Registries
    /\ host = None /\ port = None /\ instance = None
    /\ connection = NotRun /\ lookups = 0

NextRegistry ==
    ResolveConnection
        /\ UNCHANGED <<decodeVars, analyzeVars, batchVars, clientVars, macroVars>>

SpecRegistry == InitRegistry /\ [][NextRegistry]_vars

\* the set of live instances
Live == {registry[k] : k \in 1..Len(registry)}

\* the instance answers to the name: its port is the number the name spells,
\* or its name contains the name, letter case aside
Matches(i, name) ==
    \/ IsDigits(name) /\ i.port = DecimalValue(name)
    \/ \E k \in 0..(Len(i.name) - Len(name)) :
          lower(SubSeq(i.name, k + 1, k + Len(name))) = lower(name)

ReturnedAddress(h, p) == connection = [ok |-> TRUE, host |-> h, port |-> p]
RaisedValueError == connection = [ok |-> FALSE, exc |-> "ValueError"]

----------------------------------------------------------------------------
(* The chunk loop of read_png_pixels, checked under Spec. *)

\* the index of the first IEND chunk of the file, or one past its last chunk
FirstIEND ==
    IF \E k \in 1..Len(file.chunks) : file.chunks[k].type = "IEND"
    THEN CHOOSE k \in 1..Len(file.chunks) :
             /\ file.chunks[k].type = "IEND"
             /\ \A j \in 1..(k - 1) : file.chunks[j].type # "IEND"
    ELSE Len(file.chunks) + 1

\* the chunks in front of it
BeforeIEND == SubSeq(file.chunks, 1, FirstIEND - 1)

\* the data of the IDAT chunks of cs, joined in the order of the file
RECURSIVE IdatPayloads(_)
IdatPayloads(cs) ==
    IF cs = <<>> THEN <<>>
    ELSE (IF Head(cs).type = "IDAT" THEN Head(cs).data ELSE <<>>)
             \o IdatPayloads(Tail(cs))

\* the data of the last IHDR chunk of cs, or <<>> without one
RECURSIVE LastIHDR(_)
LastIHDR(cs) ==
    IF cs = <<>> THEN <<>>
    ELSE IF cs[Len(cs)].type = "IHDR" THEN cs[Len(cs)].data
    ELSE LastIHDR(SubSeq(cs, 1, Len(cs) - 1))

\* the chunk loop was left by `break`, not by an exception
LoopEnded == pc = "dimensions" \/ "dimensions" \in calls

\* C20: the buffer handed to decompression is the data of the IDAT chunks in
\* front of the first IEND, joined in file order; other chunk types add
\* nothing, and no chunk behind the first IEND is read or changes width,
\* height, colour type or the buffer.
C20_IdatUpToFirstIEND ==
    /\ cpos <= FirstIEND + 1
    /\ LoopEnded =>
           /\ idat_data = IdatPayloads(BeforeIEND)
           /\ IF LastIHDR(BeforeIEND) = <<>>
              THEN width = 0 /\ height = 0 /\ color_type = 0
              ELSE /\ width = U32BE(Slice(LastIHDR(BeforeIEND), 0, 4))
                   /\ height = U32BE(Slice(LastIHDR(BeforeIEND), 4, 8))
                   /\ color_type = LastIHDR(BeforeIEND)[10]

\* IHDR, IDAT, IEND, IDAT: the loop ended and decompression was handed the
\* first payload only
C20_Witness ==
    /\ "decompress" \in calls
    /\ FirstIEND = 3 /\ Len(file.chunks) = 4
    /\ file.chunks[2].type = "IDAT" /\ file.chunks[4].type = "IDAT"
    /\ idat_data = file.chunks[2].data
    /\ idat_data # IdatPayloads(file.chunks)


----------------------------------------------------------------------------
(* The scanline filters of read_png_pixels, on images of several pixels a   *)
(* row and several rows: the decode above, run on other files.             *)

\* most rows of an image
MaxRows == 2

FilterTypes == 0..4

\* the bytes of a row before reconstruction: zeros, 255s, and rows whose
\* bytes wrap, tie in the Paeth predictor or sum to more than 255
RowPatterns ==
    {<<0, 0, 0, 0, 0, 0, 0, 0, 0>>,
     <<255, 255, 255, 255, 255, 255, 255, 255, 255>>,
     <<10, 20, 30, 15, 50, 60, 70, 80, 90>>,
     <<246, 100, 50, 25, 220, 110, 55, 30, 200>>,
     <<1, 2, 3, 4, 250, 251, 252, 253, 254>>,
     <<128, 128, 128, 128, 127, 127, 127, 127, 129>>}

\* three pixels a row for truecolor, two with an alpha channel
PixelsPerRow(ct) == IF ct = 2 THEN 3 ELSE 2

\* the decompressed stream of rows rs, each a filter type and a pattern
FilterStream(ct, rs) ==
    Flatten([y \in 1..Len(rs) |->
                <<rs[y][1]>> \o SubSeq(rs[y][2], 1, PixelsPerRow(ct) * Bpp(ct))])

FilterFiles ==
    {PngFile(IHDRData(PixelsPerRow(ct), Len(rs), 8, ct, 0), FilterStream(ct, rs)) :
        ct \in {2, 6},
        rs \in UNION {[1..h -> FilterTypes \X RowPatterns] : h \in 1..MaxRows}}

InitFilter ==
    /\ file \in FilterFiles
    /\ pc = "signature" /\ exc = "" /\ cpos = 1
    /\ width = 0 /\ height = 0 /\ bit_depth = 0 /\ color_type = 0
    /\ idat_data = <<>> /\ raw = <<>> /\ pos = 0 /\ prev_row = <<>>
    /\ rows = 0 /\ pixels = <<>> /\ calls = {}
    /\ AnalyzeIdle /\ BatchIdle /\ RegistryIdle /\ ClientIdle /\ MacroIdle

SpecFilter == InitFilter /\ [][Next]_vars

\* the bytes of a row, and of a pixel
RowBytes == width * Bpp(color_type)

\* scanline k (0-based) of the decompressed stream, without its filter byte
FilteredRow(k) == SubSeq(raw, k * (1 + RowBytes) + 2, (k + 1) * (1 + RowBytes))

\* this step reconstructs a row of filter type ft
Reconstructs(ft) ==
    pc = "scanlines" /\ rows' = rows + 1 /\ FilterByteOfRow(rows) = ft

\* byte i (0-based) of the row being reconstructed, as read; of the row as
\* reconstructed; bpp bytes to the left of it, reconstructed and as read; of
\* the previous row; and bpp bytes to the left in the previous row
RawAt(i) == FilteredRow(rows)[i + 1]
OutAt(i) == prev_row'[i + 1]
LeftOf(i) == IF i >= Bpp(color_type) THEN prev_row'[i - Bpp(color_type) + 1] ELSE 0
PrevAt(i) == prev_row[i + 1]
PrevLeftOf(i) == IF i >= Bpp(color_type) THEN prev_row[i - Bpp(color_type) + 1] ELSE 0

\* the first of the candidates cs (left, up, upper-left) nearest to p
Nearest(cs, p) ==
    cs[CHOOSE k \in 1..3 :
          \A j \in 1..3 : \/ Abs(p - cs[k]) < Abs(p - cs[j])
                          \/ Abs(p - cs[k]) = Abs(p - cs[j]) /\ k <= j]

\* C21: in a row of filter type 4 every reconstructed byte is the byte read
\* plus, modulo 256, the candidate among left, up and upper-left nearest to
\* p = left + up - upper-left, ties going to left, then up, then upper-left;
\* left is the reconstructed byte.
C21_PaethReconstruction ==
    [][Reconstructs(4) =>
         \A i \in 0..(RowBytes - 1) :
             OutAt(i) = (RawAt(i)
                         + Nearest(<<LeftOf(i), PrevAt(i), PrevLeftOf(i)>>,
                                   LeftOf(i) + PrevAt(i) - PrevLeftOf(i))) % 256]_vars

\* a Paeth row under an unfiltered row, decoded, with a byte for which up
\* and upper-left differ and are equally near to p: up was taken
C21_Witness ==
    /\ pc = "returned" /\ height = 2
    /\ FilterByteOfRow(0) = 0 /\ FilterByteOfRow(1) = 4
    /\ \E i \in Bpp(color_type)..(RowBytes - 1) :
          LET left == prev_row[i - Bpp(color_type) + 1]
              up == FilteredRow(0)[i + 1]
              up_left == FilteredRow(0)[i - Bpp(color_type) + 1]
              p == left + up - up_left
          IN /\ up # up_left /\ Abs(p - up) = Abs(p - up_left)
             /\ Abs(p - up) < Abs(p - left)
             /\ prev_row[i + 1] = (FilteredRow(1)[i + 1] + up) % 256

\* C22: in a row of filter type 3 every reconstructed byte is the byte read
\* plus floor((left + up) / 2), modulo 256, left being the reconstructed byte
\* and the sum being halved without wraparound.
C22_AverageReconstruction ==
    [][Reconstructs(3) =>
         \A i \in 0..(RowBytes - 1) :
             OutAt(i) = (RawAt(i) + (LeftOf(i) + PrevAt(i)) \div 2) % 256]_vars

\* an Average row under an unfiltered row, decoded, with a byte whose left
\* and up sum to more than 255
C22_Witness ==
    /\ pc = "returned" /\ height = 2
    /\ FilterByteOfRow(0) = 0 /\ FilterByteOfRow(1) = 3
    /\ \E i \in Bpp(color_type)..(RowBytes - 1) :
          prev_row[i - Bpp(color_type) + 1] + FilteredRow(0)[i + 1] > 255

\* C23: in a row of filter type 1 the first bpp bytes are as read, and every
\* later byte is the byte read plus, modulo 256, the reconstructed byte bpp
\* places to its left.
C23_SubReconstruction ==
    [][Reconstructs(1) =>
         \A i \in 0..(RowBytes - 1) :
             /\ OutAt(i) = (RawAt(i) + LeftOf(i)) % 256
             /\ i < Bpp(color_type) => OutAt(i) = RawAt(i)]_vars

\* a Sub row of three pixels, decoded, whose last pixel depends on the
\* reconstructed middle one, which differs from the filtered one, with a sum
\* that wraps
C23_Witness ==
    /\ pc = "returned" /\ height = 1 /\ width = 3
    /\ FilterByteOfRow(0) = 1
    /\ prev_row[4] # FilteredRow(0)[4]
    /\ prev_row[7] = (FilteredRow(0)[7] + prev_row[4]) % 256
    /\ prev_row[7] # (FilteredRow(0)[7] + FilteredRow(0)[4]) % 256
    /\ FilteredRow(0)[7] + prev_row[4] > 255

\* C24: in a row of filter type 2 every reconstructed byte is the byte read
\* plus, modulo 256, the byte above it; the row above is all zeros for the
\* first row, and for a later row it is the previous row as reconstructed,
\* whatever its filter type.
C24_UpReconstruction ==
    [][/\ (pc = "decompress" /\ pc' = "scanlines") => prev_row' = Zeros(RowBytes)
       /\ (pc = "scanlines" /\ rows' = rows + 1) =>
              \A x \in 0..(width - 1) : \A c \in 1..3 :
                  pixels'[rows * width + x + 1][c] = OutAt(x * Bpp(color_type) + c - 1)
       /\ Reconstructs(2) =>
              /\ \A i \in 0..(RowBytes - 1) : OutAt(i) = (RawAt(i) + PrevAt(i)) % 256
              /\ \A x \in 0..(width - 1) : \A c \in 1..3 :
                     pixels'[rows * width + x + 1][c] =
                         (RawAt(x * Bpp(color_type) + c - 1)
                          + (IF rows = 0 THEN 0
                             ELSE pixels[(rows - 1) * width + x + 1][c])) % 256]_vars

\* an Up row under a Sub row whose reconstruction differs from what was read:
\* the decoded second row is built on the reconstructed first one
C24_Witness ==
    /\ pc = "returned" /\ height = 2 /\ width = 3
    /\ FilterByteOfRow(0) = 1 /\ FilterByteOfRow(1) = 2
    /\ pixels[2][1] # FilteredRow(0)[4]
    /\ pixels[5][1] = (FilteredRow(1)[4] + pixels[2][1]) % 256
    /\ pixels[5][1] # (FilteredRow(1)[4] + FilteredRow(0)[4]) % 256

\* C25: for colour types 2 and 6 a decode that succeeds returns width * height
\* pixels, row after row, the pixel of column x of a row being the first three
\* reconstructed bytes of the x-th group of bpp bytes of that row: the alpha
\* byte of colour type 6 is in no pixel.
C25_PixelsRowMajor ==
    [][/\ (pc = "scanlines" /\ rows' = rows + 1) =>
              /\ Len(pixels') = (rows + 1) * width
              /\ SubSeq(pixels', 1, rows * width) = pixels
              /\ \A x \in 0..(width - 1) :
                     pixels'[rows * width + x + 1] =
                         <<OutAt(x * Bpp(color_type)), OutAt(x * Bpp(color_type) + 1),
                           OutAt(x * Bpp(color_type) + 2)>>
       /\ pc' = "returned" =>
              /\ color_type \in {2, 6}
              /\ Len(pixels') = width * height
              /\ Bpp(color_type) = IF color_type = 6 THEN 4 ELSE 3]_vars

\* two unfiltered rows of two pixels with an alpha channel, decoded: the
\* second pixel starts at the fifth byte, the alpha bytes are left out
C25_Witness ==
    /\ pc = "returned" /\ color_type = 6 /\ height = 2 /\ width = 2
    /\ FilterByteOfRow(0) = 0 /\ FilterByteOfRow(1) = 0
    /\ Len(pixels) = 4
    /\ pixels[2] = SubSeq(FilteredRow(0), 5, 7)
    /\ pixels[2] # SubSeq(FilteredRow(0), 4, 6)
    /\ pixels[4] = SubSeq(FilteredRow(1), 5, 7)


----------------------------------------------------------------------------
(* client.py: one Client object and the server it talks to.  A response is  *)
(* a line: its text, then a newline.  What recv returns is any part of what *)
(* the server has written; a recv with nothing to read times out.           *)

\* most requests one client sends, most connections it makes
MaxRequests == 3
MaxConnections == 2

\* str(n) for n >= 0
RECURSIVE Str(_)
Str(n) == IF n < 10 THEN <<48 + n>> ELSE Str(n \div 10) \o <<48 + (n % 10)>>

\* the mutant: the counter is stuck at 1
next_id_Stuck(n) == 1

\* _next_id: the new value of _request_id
next_id(n) == n + 1

\* the text of the line the server writes in answer to request r, and the
\* newline that ends it
Body(r) == [text |-> "response", id |-> r.id, conn |-> r.conn]
Newline == [text |-> "\n"]

\* `"\n" in s`, and s.split("\n", 1)
HasNewline(s) == \E k \in 1..Len(s) : s[k] = Newline
FirstNewline(s) ==
    CHOOSE k \in 1..Len(s) : s[k] = Newline /\ \A j \in 1..(k - 1) : s[j] # Newline

\* json.loads(line) and the CommandResult built from it: a line that is not
\* the text of one response is not valid JSON
Parsed(line, request) ==
    IF Len(line) = 1
    THEN [kind |-> "result", request |-> request, line |-> line[1]]
    ELSE [kind |-> "JSONDecodeError"]

\* Client.connect: a new socket, or None when the connection fails
Connect ==
    /\ cpc = "idle"
    /\ conns < MaxConnections
    /\ \E ok \in BOOLEAN :
          IF ok
          THEN /\ sock' = conns + 1 /\ conns' = conns + 1 /\ peer_open' = TRUE
               /\ outcome' = [kind |-> "connected"]
          ELSE /\ sock' = 0 /\ conns' = conns /\ peer_open' = FALSE
               /\ outcome' = [kind |-> "ConnectionError", why |-> "connect"]
    /\ wire' = <<>> /\ inbox' = <<>>
    /\ UNCHANGED <<request_id, buffer, cpc, cur, sent>>

\* Client.disconnect
Disconnect ==
    /\ cpc = "idle"
    /\ IF sock # 0
       THEN sock' = 0 /\ wire' = <<>> /\ inbox' = <<>> /\ peer_open' = FALSE
       ELSE UNCHANGED <<sock, wire, inbox, peer_open>>
    /\ outcome' = [kind |-> "disconnected"]
    /\ UNCHANGED <<request_id, buffer, cpc, cur, sent, conns>>

\* Client._send up to sendall: on a connection the server has closed, sendall
\* raises or the request is lost
Send ==
    /\ cpc = "idle"
    /\ IF sock = 0
       THEN /\ outcome' = [kind |-> "ConnectionError", why |-> "not connected"]
            /\ UNCHANGED <<request_id, inbox, cpc, cur, sent>>
       ELSE /\ request_id < MaxRequests
            /\ request_id' = next_id(request_id)
            /\ cur' = [id |-> Str(next_id(request_id)), conn |-> sock]
            /\ sent' = Append(sent, cur')
            /\ IF peer_open
               THEN inbox' = Append(inbox, cur') /\ cpc' = "receiving"
                    /\ outcome' = outcome
               ELSE /\ inbox' = inbox
                    /\ \/ cpc' = "receiving" /\ outcome' = outcome
                       \/ cpc' = "idle" /\ outcome' = [kind |-> "OSError"]
    /\ UNCHANGED <<sock, buffer, wire, peer_open, conns>>

\* Client._send from the receive loop on: one recv, or the split of the
\* buffer and the return
Receive ==
    /\ cpc = "receiving"
    /\ IF HasNewline(buffer)
       THEN /\ buffer' = SubSeq(buffer, FirstNewline(buffer) + 1, Len(buffer))
            /\ outcome' = Parsed(SubSeq(buffer, 1, FirstNewline(buffer) - 1), cur)
            /\ cpc' = "idle" /\ wire' = wire
       ELSE IF wire # <<>>
       THEN /\ \E k \in 1..Len(wire) :
                 /\ buffer' = buffer \o SubSeq(wire, 1, k)
                 /\ wire' = SubSeq(wire, k + 1, Len(wire))
            /\ UNCHANGED <<cpc, outcome>>
       ELSE /\ outcome' = IF peer_open THEN [kind |-> "timeout"]
                          ELSE [kind |-> "ConnectionError", why |-> "closed"]
            /\ cpc' = "idle" /\ UNCHANGED <<buffer, wire>>
    /\ UNCHANGED <<sock, request_id, inbox, peer_open, cur, sent, conns>>

\* the server answers the oldest request it holds
ServerRespond ==
    /\ sock # 0 /\ peer_open /\ inbox # <<>>
    /\ wire' = wire \o <<Body(Head(inbox)), Newline>>
    /\ inbox' = Tail(inbox)
    /\ UNCHANGED <<sock, request_id, buffer, peer_open, cpc, cur, outcome, sent, conns>>

\* the server closes the connection
ServerClose ==
    /\ sock # 0 /\ peer_open
    /\ peer_open' = FALSE /\ inbox' = <<>>
    /\ UNCHANGED <<sock, request_id, buffer, wire, cpc, cur, outcome, sent, conns>>

InitClient ==
    /\ DecodeIdle /\ AnalyzeIdle /\ BatchIdle /\ RegistryIdle /\ MacroIdle
    /\ ClientIdle

NextClient ==
    \/ Connect /\ UNCHANGED <<decodeVars, analyzeVars, batchVars, registryVars, macroVars>>
    \/ Disconnect /\ UNCHANGED <<decodeVars, analyzeVars, batchVars, registryVars, macroVars>>
    \/ Send /\ UNCHANGED <<decodeVars, analyzeVars, batchVars, registryVars, macroVars>>
    \/ Receive /\ UNCHANGED <<decodeVars, analyzeVars, batchVars, registryVars, macroVars>>
    \/ ServerRespond /\ UNCHANGED <<decodeVars, analyzeVars, batchVars, registryVars, macroVars>>
    \/ ServerClose /\ UNCHANGED <<decodeVars, analyzeVars, batchVars, registryVars, macroVars>>

SpecClient == InitClient /\ [][NextClient]_vars

\* C26: the CommandResult a _send call returns is built from the line the
\* server wrote in answer to the request of that call, on that connection.
C26_ResponseOfSameRequest ==
    outcome.kind = "result" => outcome.line = Body(outcome.request)

----------------------------------------------------------------------------
(* macro.py: run_macro, one pass of its loop at a time.  A step is a JSON   *)
(* value: an object with some of the keys the runner knows, or not an       *)
(* object at all.  Whether a command or a local analysis succeeds is up to  *)
(* the server and the files.                                                *)

\* most steps of a macro
MaxSteps == 3

Step(keys, command, local) ==
    [object |-> TRUE, keys |-> keys, command |-> command, local |-> local]

\* a step that is a number
NumberStep == [object |-> FALSE, keys |-> {}, command |-> "", local |-> ""]

\* a command, two waits, a local analysis, an unknown local step, an empty
\* object, steps with several of the keys, and a number
StepPool ==
    {Step({"command"}, "status", ""),
     Step({"wait_ms"}, "", ""),
     Step({"wait_ticks"}, "", ""),
     Step({"local", "path"}, "", "analyze"),
     Step({"local"}, "", "histogram"),
     Step({}, "", ""),
     Step({"command", "wait_ms"}, "status", ""),
     Step({"command", "local", "path"}, "status", "analyze"),
     Step({"sleep_ms", "local", "path"}, "", "analyze"),
     NumberStep}

Macros ==
    [steps : UNION {[1..n -> StepPool] : n \in 0..MaxSteps},
     stop_on_error : BOOLEAN]

\* _step_type: the f-strings as tuples
step_type(step) ==
    IF "command" \in step.keys THEN <<"command", step.command>>
    ELSE IF step.keys \cap {"wait_ms", "sleep_ms", "wait_ticks"} # {} THEN <<"wait">>
    ELSE IF "local" \in step.keys THEN <<"local", step.local>>
    ELSE <<"unknown">>

\* _run_step: what the step did, and whether it raised; ok is whether the
\* command or the analysis it ran succeeded
run_step(step, ok) ==
    IF step.keys \cap {"wait_ms", "sleep_ms"} # {}
    THEN [did |-> <<"slept">>, raised |-> FALSE]
    ELSE IF "wait_ticks" \in step.keys
    THEN [did |-> <<"slept">>, raised |-> FALSE]
    ELSE IF "command" \in step.keys
    THEN [did |-> <<"sent", step.command>>, raised |-> ~ok]
    ELSE IF "local" \in step.keys
    THEN IF step.local \in {"analyze", "compare"}
         THEN [did |-> <<"local", step.local>>, raised |-> ~ok]
         ELSE [did |-> <<"nothing">>, raised |-> TRUE]
    ELSE [did |-> <<"nothing">>, raised |-> TRUE]

\* the mutant: the loop never breaks
Stops_Never(success, stop_on_error) == FALSE

\* `if not success and stop_on_error: break`
Stops(success, stop_on_error) == ~success /\ stop_on_error

\* the mutant: the flag follows the last step
Overall_LastStep(overall, success) == success

\* overall_success after a step: set to False in the except branch only
Overall(overall, success) == IF success THEN overall ELSE FALSE

\* `with Client(host, port) as mc`: connect, which may fail
EnterClient ==
    /\ mpc = "start"
    /\ \E ok \in BOOLEAN :
          IF ok THEN mpc' = "loop" /\ connected' = TRUE
          ELSE mpc' = "raised" /\ connected' = FALSE
    /\ UNCHANGED <<macro, midx, mresults, overall_success, executed>>

\* one pass of `for idx, step in enumerate(steps)`; `"command" in step` on a
\* number raises outside the try, and the exception leaves the with block
RunStep ==
    /\ mpc = "loop"
    /\ midx < Len(macro.steps)
    /\ LET step == macro.steps[midx + 1] IN
       IF ~step.object
       THEN /\ mpc' = "raised" /\ connected' = FALSE
            /\ UNCHANGED <<midx, mresults, overall_success, executed>>
       ELSE \E ok \in BOOLEAN :
              LET r == run_step(step, ok) IN
              /\ executed' = Append(executed, [index |-> midx, did |-> r.did])
              /\ mresults' = Append(mresults, [index |-> midx, type |-> step_type(step),
                                               success |-> ~r.raised])
              /\ overall_success' = Overall(overall_success, ~r.raised)
              /\ midx' = midx + 1
              /\ mpc' = IF Stops(~r.raised, macro.stop_on_error) THEN "break" ELSE "loop"
              /\ connected' = connected
    /\ UNCHANGED macro

\* the end of the loop: Client.__exit__ disconnects, run_macro returns
ExitAndReturn ==
    /\ mpc = "break" \/ (mpc = "loop" /\ midx = Len(macro.steps))
    /\ mpc' = "returned" /\ connected' = FALSE
    /\ UNCHANGED <<macro, midx, mresults, overall_success, executed>>

InitMacro ==
    /\ DecodeIdle /\ AnalyzeIdle /\ BatchIdle /\ RegistryIdle /\ ClientIdle
    /\ macro \in Macros
    /\ mpc = "start" /\ midx = 0 /\ mresults = <<>>
    /\ overall_success = TRUE /\ connected = FALSE /\ executed = <<>>

NextMacro ==
    \/ EnterClient /\ UNCHANGED <<decodeVars, analyzeVars, batchVars, registryVars, clientVars>>
    \/ RunStep /\ UNCHANGED <<decodeVars, analyzeVars, batchVars, registryVars, clientVars>>
    \/ ExitAndReturn /\ UNCHANGED <<decodeVars, analyzeVars, batchVars, registryVars, clientVars>>

SpecMacro == InitMacro /\ [][NextMacro]_vars

\* the entries of the result list with success false
Failures == {k \in 1..Len(mresults) : ~mresults[k].success}

C28_TypeNamesAction ==
    \A k \in 1..Len(mresults) :
        /\ mresults[k].type[1] = "command" =>
               executed[k].did = <<"sent", mresults[k].type[2]>>
        /\ mresults[k].type[1] = "wait" => executed[k].did = <<"slept">>
        /\ mresults[k].type[1] = "local" =>
               executed[k].did \in {<<"local", mresults[k].type[2]>>, <<"nothing">>}

\* C29: the success flag run_macro returns is true exactly when every entry
\* of the step list has success true, with or without stop_on_error.
C29_OverallSuccess ==
    mpc = "returned" => (overall_success <=> Failures = {})

\* without stop_on_error: a failing step, then one that succeeds: the flag
\* stays false
C29_Witness ==
    /\ mpc = "returned" /\ ~macro.stop_on_error
    /\ Len(mresults) = 2 /\ ~mresults[1].success /\ mresults[2].success
    /\ ~overall_success

=============================================================================
